---------------------------- MODULE Spec2Model ----------------------------
(***************************************************************************)
(* A model of the MoneroWebCoordinator: the sliding-window rate limiter,   *)
(* the job registry, the session registry and the connection handler with  *)
(* its submission pipeline.  Each component has its own group of variables *)
(* and its own specification; a specification leaves the other groups at   *)
(* their initial values.                                                   *)
(*                                                                         *)
(*   SpecRL    ratelimit.rs   one RateLimiter driven by check() and time   *)
(*   SpecJobs  jobs.rs        create_job by concurrent tasks, is_stale     *)
(*   SpecSess  session.rs     create_session / remove_session, interleaved *)
(*   Spec      server.rs      handle_socket and handle_message over the    *)
(*                            shared AppState, the template channel and    *)
(*                            the daemon                                   *)
(*   SpecSubmit server.rs     the submissions of one session after its     *)
(*                            Hello, with the sweep of the job registry    *)
(*   SpecConn  server.rs      two connections after the first one's Hello: *)
(*                            pings, unparsable frames, sockets that break *)
(*                            and the template task ending                 *)
(*   SpecIdle  server.rs,     the connections beside a task that calls     *)
(*             session.rs     cleanup_idle                                 *)
(*   SpecCleanup session.rs   cleanup_idle beside connections that come,   *)
(*                            ping and go                                  *)
(*   SpecEvict server.rs,     the same when sockets break, so that a task  *)
(*             session.rs     outlives its evicted session                 *)
(*   SpecShare server.rs      two connections that submit beside each      *)
(*                            other, before or after their Hello           *)
(*   SpecValidator            two tasks calling init_vm and compute_hash   *)
(*             validator.rs   on the shared SubmissionValidator            *)
(*   SpecLive  server.rs      one connection under fair scheduling of the  *)
(*                            select loop and of the daemon's reply        *)
(*   SpecFn    jobs.rs,       difficulty_to_target, validate_blob and      *)
(*             validator.rs,  check_meets_target applied to drawn inputs;  *)
(*             protocol.rs    the messages written to JSON and read back   *)
(*   SpecTemplate template.rs TemplateManager::run against a daemon whose  *)
(*                            height grows and which may fail to answer;   *)
(*                            SpecTemplateFair adds that the task runs     *)
(***************************************************************************)
EXTENDS Integers, Sequences, FiniteSets, TLC

VARIABLES
    \* ---- ratelimit.rs: one RateLimiter and the clock it reads
    rl_max_count,    \* RateLimiter.max_count
    rl_window,       \* RateLimiter.window
    rl_timestamps,   \* RateLimiter.timestamps (front first)
    rl_now,          \* Instant::now()
    rl_admitted,     \* history: the timestamp of every admitted check()
    rl_last,         \* history: the time and result of the last check()
    \* ---- jobs.rs: the JobManager, the tasks calling create_job, the clock
    jm_counter,      \* JobManager.counter (AtomicU64)
    jm_jobs,         \* JobManager.jobs: job_id -> Job
    jm_stale_grace,  \* JobManager.stale_grace_ms
    jm_template,     \* the TemplateState the callers pass to create_job
    jm_now,          \* Instant::now(), in milliseconds
    jm_pc,           \* per calling task: "idle", or inside create_job "fetched",
                     \* "built" or "inserted"
    jm_loc,          \* per calling task: the locals of its create_job call
    jm_log,          \* history: every job returned, with its session and seq
    \* ---- session.rs: the SessionManager and the tasks calling it
    sm_sessions,     \* SessionManager.sessions: id -> Session
    sm_ip_counts,    \* SessionManager.ip_counts: ip -> count
    sm_max_per_ip,   \* SessionManager.max_per_ip
    sm_max_total,    \* SessionManager.max_total
    sm_pc,           \* per task: where it is in create_session / remove_session
    sm_loc,          \* per task: the ip and session id it works on
    sm_next_id,      \* the next fresh session id (Uuid::new_v4 never repeats)
    \* ---- server.rs: the AppState shared by the connection tasks
    now,             \* Instant::now(), in milliseconds
    sessions,        \* session_manager.sessions: id -> Session
    ip_counts,       \* session_manager.ip_counts: ip -> count
    jobs,            \* job_manager.jobs: job_id -> Job
    counter,         \* job_manager.counter
    template_slot,   \* the watch channel: its value and its version
    template_counter,\* TemplateManager.template_counter
    validator,       \* AppState.validator: its VM (<<>> for None) and current_seed_hash
    metrics,         \* the Metrics counters
    pc,              \* per connection: where its handle_socket task is
    loc,             \* per connection: the locals of its task, and the jobs it minted
    sent,            \* per connection: what the task has sent on the socket
    daemon_calls,    \* history: the number of submit_block calls made
    config,          \* config.server: max_connections, max_connections_per_ip;
                     \* config.limits: messages_per_second, submits_per_minute
    frames_left,     \* the text frames the clients may still send
    \* ---- the functions of jobs.rs and validator.rs applied to an input
    fn_in,           \* the arguments of the call
    fn_out,          \* <<>> before the call, <<result>> after it
    \* ---- template.rs: the TemplateManager task and the daemon it polls
    tm_pc,           \* where run() is: "init", "tick" or "refresh"
    tm_template_counter, \* TemplateManager.template_counter
    tm_last_height,  \* run()'s local last_height
    tm_slot,         \* the watch channel: its value and its version
    tm_templates_received, \* Metrics.templates_received
    tm_height,       \* the daemon's height
    tm_up,           \* whether the daemon answers calls
    tm_failed,       \* history: the detected height whose fetch failed, 0 if none
    \* ---- session.rs: a task that runs cleanup_idle beside the connections
    cl_pc,           \* where the call is: "idle", "removing" (in its loop), inside
                     \* remove_session "decrementing" or "dropping", or "done"
    cl_to_remove,    \* cleanup_idle's local to_remove, the ids still to visit
    cl_removed,      \* cleanup_idle's local removed, the value it returns
    cl_idle,         \* history: the ids the call's snapshot collected
    cl_found,        \* history: the ids whose session the call's remove_session took out
    cl_session,      \* remove_session's local session: <<>> or <<the Session taken out>>
    \* ---- validator.rs: the SubmissionValidator shared by the tasks that submit
    v_vm,            \* SubmissionValidator.vm: <<>> or <<the seed its VM was built for>>
    v_current,       \* SubmissionValidator.current_seed_hash
    v_pc,            \* per task: "idle", or "primed" between init_vm and compute_hash
    v_loc            \* per task: its job's seed_hash and the result of its last call

rlvars == <<rl_max_count, rl_window, rl_timestamps, rl_now, rl_admitted, rl_last>>
jmvars == <<jm_counter, jm_jobs, jm_stale_grace, jm_template, jm_now, jm_pc, jm_loc, jm_log>>

smvars == <<sm_sessions, sm_ip_counts, sm_max_per_ip, sm_max_total, sm_pc, sm_loc, sm_next_id>>

srvvars == <<now, sessions, ip_counts, jobs, counter, template_slot, template_counter,
             validator, metrics, pc, loc, sent, daemon_calls, config, frames_left>>

fnvars == <<fn_in, fn_out>>
tmvars == <<tm_pc, tm_template_counter, tm_last_height, tm_slot, tm_templates_received, tm_height, tm_up, tm_failed>>

clvars == <<cl_pc, cl_to_remove, cl_removed, cl_idle, cl_found, cl_session>>

vvars == <<v_vm, v_current, v_pc, v_loc>>

vars == <<rlvars, jmvars, smvars, srvvars, fnvars, tmvars, clvars, vvars>>

\* what each component's actions leave alone
notRL == <<jmvars, smvars, srvvars, fnvars, tmvars, clvars, vvars>>
notJM == <<rlvars, smvars, srvvars, fnvars, tmvars, clvars, vvars>>
notSM == <<rlvars, jmvars, srvvars, fnvars, tmvars, clvars, vvars>>
notSrv == <<rlvars, jmvars, smvars, fnvars, tmvars, clvars, vvars>>
notFn == <<rlvars, jmvars, smvars, srvvars, tmvars, clvars, vvars>>
notTM == <<rlvars, jmvars, smvars, srvvars, fnvars, clvars, vvars>>
notSrvCL == <<rlvars, jmvars, smvars, fnvars, tmvars, vvars>>
notV == <<rlvars, jmvars, smvars, srvvars, fnvars, tmvars, clvars>>

--------------------------------------------------------------------------
(* Bounds of the model *)

RLMaxCount == 2     \* capacities 0..RLMaxCount are explored
RLMaxWindow == 2    \* windows 1..RLMaxWindow are explored
RLMaxTime == 5      \* the clock runs from 0 to RLMaxTime
JMaxJobs == 2       \* create_job calls per behaviour
JMaxReserve == 3    \* reserve_size values 1..JMaxReserve are explored
JGrace == 1         \* the configured stale_grace_ms
JMaxTime == JGrace + 1   \* the job clock runs from 0 to JMaxTime
SMaxPerIp == 1      \* the configured max_connections_per_ip
SMaxTotal == 2      \* the configured max_connections
SMaxConns == 4      \* connections accepted per behaviour

--------------------------------------------------------------------------
(* ratelimit.rs *)

\* RateLimiter::new
RateLimiterNew(max_count, window_secs) ==
    [window |-> window_secs, max_count |-> max_count, timestamps |-> <<>>]

\* the eviction loop of check(): pop the front while it is older than cutoff
RECURSIVE DropOld(_, _)
DropOld(ts, cutoff) ==
    IF ts # <<>> /\ Head(ts) < cutoff THEN DropOld(Tail(ts), cutoff) ELSE ts

\* the capacity test of check(), on the deque left after eviction
CheckFullMutant(kept, max_count) == Len(kept) > max_count
CheckFull(kept, max_count) == Len(kept) >= max_count

\* RateLimiter::check at time now: the new limiter and the returned bool
RateLimiterCheck(rl, t) ==
    LET cutoff == t - rl.window
        kept == DropOld(rl.timestamps, cutoff)
    IN  IF CheckFull(kept, rl.max_count)
        THEN [rl |-> [rl EXCEPT !.timestamps = kept], ok |-> FALSE]
        ELSE [rl |-> [rl EXCEPT !.timestamps = Append(kept, t)], ok |-> TRUE]

\* u32 saturating_sub
SaturatingSub(a, b) == IF a >= b THEN a - b ELSE 0

\* RateLimiter::remaining
RateLimiterRemaining(rl) == SaturatingSub(rl.max_count, Len(rl.timestamps))

\* The limiter of SpecRL as a RateLimiter value
TheRL == [window |-> rl_window, max_count |-> rl_max_count, timestamps |-> rl_timestamps]

RLInit ==
    /\ rl_max_count \in 0..RLMaxCount
    /\ rl_window \in 1..RLMaxWindow
    /\ rl_timestamps = RateLimiterNew(rl_max_count, rl_window).timestamps
    /\ rl_now = 0
    /\ rl_admitted = <<>>
    /\ rl_last = [t |-> 0, ok |-> TRUE, called |-> FALSE]

\* a call of check() at the current instant
RLCheck ==
    LET r == RateLimiterCheck(TheRL, rl_now)
    IN  /\ rl_timestamps' = r.rl.timestamps
        /\ rl_admitted' = IF r.ok THEN Append(rl_admitted, rl_now) ELSE rl_admitted
        /\ rl_last' = [t |-> rl_now, ok |-> r.ok, called |-> TRUE]
        /\ UNCHANGED <<rl_max_count, rl_window, rl_now, notRL>>

\* the monotonic clock advances
RLAdvance ==
    /\ rl_now < RLMaxTime
    /\ rl_now' = rl_now + 1
    /\ UNCHANGED <<rl_max_count, rl_window, rl_timestamps, rl_admitted, rl_last, notRL>>

RLNext == RLCheck \/ RLAdvance

\* the limiter group while another component's specification runs
RLParked ==
    /\ rl_max_count = 0
    /\ rl_window = 1
    /\ rl_timestamps = <<>>
    /\ rl_now = 0
    /\ rl_admitted = <<>>
    /\ rl_last = [t |-> 0, ok |-> TRUE, called |-> FALSE]

--------------------------------------------------------------------------
(* Byte and hex encodings used by jobs.rs and the validator.  A byte is an *)
(* integer in 0..255, a string is a sequence of one-character strings.     *)

HexChars == <<"0", "1", "2", "3", "4", "5", "6", "7", "8", "9", "a", "b", "c", "d", "e", "f">>

\* hex::encode: two lowercase digits per byte, high nibble first
HexEncode(bytes) ==
    [i \in 1..(2 * Len(bytes)) |->
        LET b == bytes[(i + 1) \div 2]
        IN  IF i % 2 = 1 THEN HexChars[(b \div 16) + 1] ELSE HexChars[(b % 16) + 1]]

\* the value of one hex digit as hex::decode reads it (either case), -1 if none
HexVal(c) ==
    CASE c = "0" -> 0 [] c = "1" -> 1 [] c = "2" -> 2 [] c = "3" -> 3
      [] c = "4" -> 4 [] c = "5" -> 5 [] c = "6" -> 6 [] c = "7" -> 7
      [] c = "8" -> 8 [] c = "9" -> 9
      [] c \in {"a", "A"} -> 10 [] c \in {"b", "B"} -> 11 [] c \in {"c", "C"} -> 12
      [] c \in {"d", "D"} -> 13 [] c \in {"e", "E"} -> 14 [] c \in {"f", "F"} -> 15
      [] OTHER -> -1

\* hex::decode: Err on an odd length or a character that is no hex digit
HexDecode(s) ==
    IF Len(s) % 2 # 0 \/ \E i \in 1..Len(s) : HexVal(s[i]) < 0
    THEN [ok |-> FALSE, bytes |-> <<>>]
    ELSE [ok |-> TRUE,
          bytes |-> [i \in 1..(Len(s) \div 2) |-> 16 * HexVal(s[2 * i - 1]) + HexVal(s[2 * i])]]

\* Result<Vec<u8>, _>::unwrap_or_default
UnwrapOrDefault(r) == IF r.ok THEN r.bytes ELSE <<>>

\* the k low-order bytes of n, least significant first (u64::to_le_bytes for k = 8)
RECURSIVE ToLeBytes(_, _)
ToLeBytes(n, k) == IF k = 0 THEN <<>> ELSE <<n % 256>> \o ToLeBytes(n \div 256, k - 1)

\* the hex digits of n, most significant first, at least one
RECURSIVE ToHex(_)
ToHex(n) == IF n < 16 THEN <<HexChars[n + 1]>> ELSE Append(ToHex(n \div 16), HexChars[(n % 16) + 1])

\* format!("{:016x}", n): left-padded with "0" to 16 digits
Format016x(n) ==
    LET d == ToHex(n) IN [i \in 1..(16 - Len(d)) |-> "0"] \o d

--------------------------------------------------------------------------
(* jobs.rs *)

\* the quotient digits of 2^256 / d, base 256, least significant first:
\* schoolbook long division over the 33 digits of 2^256, top digit first
RECURSIVE DivPow256(_, _, _, _)
DivPow256(i, rem, d, acc) ==
    IF i = 0 THEN acc
    ELSE LET cur == rem * 256 + (IF i = 33 THEN 1 ELSE 0)
         IN  DivPow256(i - 1, cur % d, d, [acc EXCEPT ![i] = cur \div d])

\* BigUint::to_bytes_le: no high zero bytes, <<0>> for zero
RECURSIVE TrimHighZeros(_)
TrimHighZeros(b) ==
    IF Len(b) > 1 /\ b[Len(b)] = 0 THEN TrimHighZeros(SubSeq(b, 1, Len(b) - 1)) ELSE b

\* difficulty_to_target
difficulty_to_targetMutant(difficulty) ==
    IF difficulty <= 2 THEN [i \in 1..32 |-> 255]
    ELSE LET target_bytes == TrimHighZeros(DivPow256(33, 0, difficulty, [i \in 1..33 |-> 0]))
             len == IF Len(target_bytes) < 32 THEN Len(target_bytes) ELSE 32
         IN  [i \in 1..32 |-> IF i <= len THEN target_bytes[i] ELSE 0]
difficulty_to_targetCoarse(difficulty) ==
    LET target_bytes == TrimHighZeros(DivPow256(33, 0, 2 * (difficulty \div 2),
                                                [i \in 1..33 |-> 0]))
        len == IF Len(target_bytes) < 32 THEN Len(target_bytes) ELSE 32
    IN  IF difficulty <= 1 THEN [i \in 1..32 |-> 255]
        ELSE [i \in 1..32 |-> IF i <= len THEN target_bytes[i] ELSE 0]
difficulty_to_target(difficulty) ==
    IF difficulty <= 1 THEN [i \in 1..32 |-> 255]
    ELSE LET target_bytes == TrimHighZeros(DivPow256(33, 0, difficulty, [i \in 1..33 |-> 0]))
             len == IF Len(target_bytes) < 32 THEN Len(target_bytes) ELSE 32
         IN  [i \in 1..32 |-> IF i <= len THEN target_bytes[i] ELSE 0]

\* AtomicU64::fetch_add(1): the value read and the value stored, in one step
FetchAddMutant(ctr) == [seq |-> ctr, next |-> ctr]
FetchAdd(ctr) == [seq |-> ctr, next |-> ctr + 1]

\* create_job, lines 47-54: session bytes then the little-endian seq bytes,
\* cut to reserve_size and zero-padded
ReservedValue(session_bytes, seq, reserve_size) ==
    LET src == session_bytes \o ToLeBytes(seq, 8)
    IN  [i \in 1..reserve_size |-> IF i <= Len(src) THEN src[i] ELSE 0]

\* create_job, lines 57-63: the decoded template blob with the reserved
\* bytes written at offset, each only where offset + i is inside the blob
WriteReserved(blocktemplate_blob, offset, reserved) ==
    LET blob == UnwrapOrDefault(HexDecode(blocktemplate_blob))
    IN  [p \in 1..Len(blob) |->
            IF p - 1 >= offset /\ p - 1 - offset < Len(reserved)
            THEN reserved[p - offset] ELSE blob[p]]

\* create_job after the fetch_add: the Job built for seq at time now
BuildJob(template, session_bytes, seq, t) ==
    LET reserved == ReservedValue(session_bytes, seq, template.reserve_size)
        blob == WriteReserved(template.blocktemplate_blob, template.reserved_offset, reserved)
    IN  [job_id |-> Format016x(seq),
         template_id |-> template.template_id,
         blob_hex |-> HexEncode(blob),
         reserved_offset |-> template.reserved_offset,
         reserved_value |-> reserved,
         target_hex |-> HexEncode(difficulty_to_target(template.difficulty)),
         height |-> template.height,
         seed_hash |-> template.seed_hash,
         created_at |-> t]

\* DashMap::insert
MapInsert(map, key, value) ==
    [k \in DOMAIN map \cup {key} |-> IF k = key THEN value ELSE map[k]]

\* the comparison of is_stale, line 92
GraceExceededMutant(age_ms, stale_grace_ms) == age_ms >= stale_grace_ms
GraceExceeded(age_ms, stale_grace_ms) == age_ms > stale_grace_ms

\* JobManager::is_stale, with created_at.elapsed().as_millis() = now - created_at
is_staleMutant(job, current_template_id, t, stale_grace_ms) == FALSE
is_stale(job, current_template_id, t, stale_grace_ms) ==
    IF job.template_id = current_template_id THEN FALSE
    ELSE GraceExceeded(t - job.created_at, stale_grace_ms)

\* JobManager::get_job
get_jobMutant(registry, job_id) ==
    IF registry # <<>>
    THEN [some |-> TRUE,
          job |-> IF job_id \in DOMAIN registry THEN registry[job_id]
                  ELSE registry[CHOOSE k \in DOMAIN registry : TRUE]]
    ELSE [some |-> FALSE]
get_job(registry, job_id) ==
    IF job_id \in DOMAIN registry THEN [some |-> TRUE, job |-> registry[job_id]]
    ELSE [some |-> FALSE]

\* JobManager::cleanup_old_jobs: retain the jobs younger than max_age_ms
cleanup_old_jobsMutant(registry, max_age_ms, t) ==
    [k \in {j \in DOMAIN registry : registry[j].created_at < max_age_ms} |-> registry[k]]
cleanup_old_jobs(registry, max_age_ms, t) ==
    [k \in {j \in DOMAIN registry : t - registry[j].created_at < max_age_ms} |-> registry[k]]

\* Session ids as create_job sees them: the bytes of the id string
JSessionIds == {<<97, 49>>, <<97, 50>>}

\* The templates the daemon supplies: a blob of three bytes in hex with the
\* reserved region inside it or starting at its end, or a blob that is no hex
JShapes == {[blob |-> <<"0", "1", "0", "2", "0", "3">>, off |-> 1],
            [blob |-> <<"0", "1", "0", "2", "0", "3">>, off |-> 3],
            [blob |-> <<"z", "z">>, off |-> 1]}

\* The session tasks that call create_job concurrently
JTasks == {1, 2}

\* The template ids published while the jobs are created
JTemplateIds == {1, 2}

\* JobManager::new, and a first template of any shape the daemon and the
\* configuration allow; TemplateState::from_rpc copies the fields unchecked
JMInit ==
    /\ jm_counter = 0
    /\ jm_jobs = <<>>
    /\ jm_stale_grace = JGrace
    /\ \E shape \in JShapes, rs \in 1..JMaxReserve :
          jm_template = [template_id |-> 1, height |-> 100, blocktemplate_blob |-> shape.blob,
                         difficulty |-> 2, reserved_offset |-> shape.off, reserve_size |-> rs,
                         seed_hash |-> <<"a", "b">>, created_at |-> 0]
    /\ jm_now = 0
    /\ jm_pc = [t \in JTasks |-> "idle"]
    /\ jm_loc = [t \in JTasks |-> [seq |-> 0, session |-> <<>>, template |-> jm_template,
                                    job |-> <<>>]]
    /\ jm_log = <<>>

\* create_job, line 44: a task enters create_job and takes its seq
JFetch(t) ==
    /\ jm_pc[t] = "idle"
    /\ jm_counter < JMaxJobs
    /\ \E sid \in JSessionIds :
          jm_loc' = [jm_loc EXCEPT ![t] = [seq |-> FetchAdd(jm_counter).seq,
                                            session |-> sid, template |-> jm_template,
                                            job |-> <<>>]]
    /\ jm_counter' = FetchAdd(jm_counter).next
    /\ jm_pc' = [jm_pc EXCEPT ![t] = "fetched"]
    /\ UNCHANGED <<jm_jobs, jm_stale_grace, jm_template, jm_now, jm_log, notJM>>

\* create_job, lines 45-78: the task builds the job; created_at is the
\* instant read at line 77
JBuild(t) ==
    /\ jm_pc[t] = "fetched"
    /\ jm_loc' = [jm_loc EXCEPT ![t].job =
                     <<BuildJob(jm_loc[t].template, jm_loc[t].session, jm_loc[t].seq, jm_now)>>]
    /\ jm_pc' = [jm_pc EXCEPT ![t] = "built"]
    /\ UNCHANGED <<jm_counter, jm_jobs, jm_stale_grace, jm_template, jm_now, jm_log, notJM>>

\* create_job, line 80: the task takes the map's lock and inserts a clone
\* of the job it built
JInsert(t) ==
    /\ jm_pc[t] = "built"
    /\ jm_jobs' = MapInsert(jm_jobs, jm_loc[t].job[1].job_id, jm_loc[t].job[1])
    /\ jm_pc' = [jm_pc EXCEPT ![t] = "inserted"]
    /\ UNCHANGED <<jm_counter, jm_stale_grace, jm_template, jm_now, jm_loc, jm_log, notJM>>

\* create_job, line 81: the job is returned to the caller
JReturn(t) ==
    /\ jm_pc[t] = "inserted"
    /\ jm_log' = Append(jm_log, [job_id |-> jm_loc[t].job[1].job_id,
                                 session |-> jm_loc[t].session, seq |-> jm_loc[t].seq])
    /\ jm_pc' = [jm_pc EXCEPT ![t] = "idle"]
    /\ UNCHANGED <<jm_counter, jm_jobs, jm_stale_grace, jm_template, jm_now, jm_loc, notJM>>

\* the template manager publishes the next template (template.rs, line 117)
JRotate ==
    /\ jm_template.template_id + 1 \in JTemplateIds
    /\ jm_template' = [jm_template EXCEPT !.template_id = @ + 1, !.created_at = jm_now]
    /\ UNCHANGED <<jm_counter, jm_jobs, jm_stale_grace, jm_now, jm_pc, jm_loc, jm_log, notJM>>

\* the monotonic clock advances by a millisecond
JTick ==
    /\ jm_now < JMaxTime
    /\ jm_now' = jm_now + 1
    /\ UNCHANGED <<jm_counter, jm_jobs, jm_stale_grace, jm_template, jm_pc, jm_loc, jm_log, notJM>>

JMNext ==
    \/ \E t \in JTasks : JFetch(t)
    \/ \E t \in JTasks : JBuild(t)
    \/ \E t \in JTasks : JInsert(t)
    \/ \E t \in JTasks : JReturn(t)
    \/ JRotate
    \/ JTick

\* the job group while another component's specification runs
JMParked ==
    /\ jm_counter = 0
    /\ jm_jobs = <<>>
    /\ jm_stale_grace = 0
    /\ jm_template = <<>>
    /\ jm_now = 0
    /\ jm_pc = <<>>
    /\ jm_loc = <<>>
    /\ jm_log = <<>>

--------------------------------------------------------------------------
(* session.rs: the SessionManager under concurrent connection tasks.  Each *)
(* DashMap call is one step; create_session and remove_session are made of *)
(* several and other tasks run between them.                               *)

\* Session::new, the fields the registry logic reads
SessionNew(id, ip) == [id |-> id, ip |-> ip, state |-> "Connected"]

\* create_session, line 110: the global limit test on sessions.len()
GlobalLimitReached(sess, max_total) == Cardinality(DOMAIN sess) >= max_total

\* DashMap::entry(ip).or_insert(0)
EntryOrInsertZero(counts, ip) ==
    [k \in DOMAIN counts \cup {ip} |-> IF k \in DOMAIN counts THEN counts[k] ELSE 0]

\* DashMap::remove
MapRemoveMutant(map, key) == map
MapRemove(map, key) == [k \in DOMAIN map \ {key} |-> map[k]]

\* The addresses connections come from
SIps == {"ipA", "ipB", "ipC"}

\* The connection tasks that may run at the same time
STasks == {1, 2, 3}

\* SessionManager::new, for every per-IP limit up to SMaxPerIp (the
\* configuration's usize admits 0)
SMInit ==
    /\ sm_sessions = <<>>
    /\ sm_ip_counts = <<>>
    /\ sm_max_per_ip \in 0..SMaxPerIp
    /\ sm_max_total = SMaxTotal
    /\ sm_pc = [t \in STasks |-> "idle"]
    /\ sm_loc = [t \in STasks |-> [ip |-> "ipA", id |-> 0]]
    /\ sm_next_id = 1

\* a connection from ip arrives on task t: handle_socket calls create_session,
\* which first compares sessions.len() with max_total (lines 109-112)
SCreateCheckTotal(t, ip) ==
    /\ sm_pc[t] = "idle"
    /\ sm_next_id <= SMaxConns
    /\ sm_next_id' = sm_next_id + 1
    /\ sm_loc' = [sm_loc EXCEPT ![t] = [ip |-> ip, id |-> sm_next_id]]
    /\ sm_pc' = [sm_pc EXCEPT ![t] =
                    IF GlobalLimitReached(sm_sessions, sm_max_total) THEN "idle" ELSE "checked"]
    /\ UNCHANGED <<sm_sessions, sm_ip_counts, sm_max_per_ip, sm_max_total, notSM>>

\* create_session, lines 114-123: under the ip entry's lock, refuse at the
\* per-IP limit, else count the connection and insert the new session
SCreateAdmit(t) ==
    /\ sm_pc[t] = "checked"
    /\ LET ip == sm_loc[t].ip
           counts == EntryOrInsertZero(sm_ip_counts, ip)
       IN  IF counts[ip] >= sm_max_per_ip
           THEN /\ sm_ip_counts' = counts
                /\ sm_pc' = [sm_pc EXCEPT ![t] = "idle"]
                /\ UNCHANGED sm_sessions
           ELSE /\ sm_ip_counts' = [counts EXCEPT ![ip] = @ + 1]
                /\ sm_sessions' = MapInsert(sm_sessions, sm_loc[t].id,
                                            SessionNew(sm_loc[t].id, ip))
                /\ sm_pc' = [sm_pc EXCEPT ![t] = "live"]
    /\ UNCHANGED <<sm_max_per_ip, sm_max_total, sm_loc, sm_next_id, notSM>>

\* the connection ends: remove_session, line 154, takes the session out
SRemoveSession(t) ==
    /\ sm_pc[t] = "live"
    /\ IF sm_loc[t].id \in DOMAIN sm_sessions
       THEN /\ sm_sessions' = MapRemove(sm_sessions, sm_loc[t].id)
            /\ sm_pc' = [sm_pc EXCEPT ![t] = "removed"]
       ELSE /\ sm_pc' = [sm_pc EXCEPT ![t] = "idle"]
            /\ UNCHANGED sm_sessions
    /\ UNCHANGED <<sm_ip_counts, sm_max_per_ip, sm_max_total, sm_loc, sm_next_id, notSM>>

\* remove_session, lines 155-157: decrement the ip's count under its lock;
\* at zero the lock is dropped (line 158) before the entry is removed
SRemoveDecrement(t) ==
    /\ sm_pc[t] = "removed"
    /\ LET ip == sm_loc[t].ip
           counts == EntryOrInsertZero(sm_ip_counts, ip)
           count == SaturatingSub(counts[ip], 1)
       IN  /\ sm_ip_counts' = [counts EXCEPT ![ip] = count]
           /\ sm_pc' = [sm_pc EXCEPT ![t] = IF count = 0 THEN "dropping" ELSE "idle"]
    /\ UNCHANGED <<sm_sessions, sm_max_per_ip, sm_max_total, sm_loc, sm_next_id, notSM>>

\* remove_session, line 159: ip_counts.remove(&ip), whatever the entry holds now
SRemoveEntry(t) ==
    /\ sm_pc[t] = "dropping"
    /\ sm_ip_counts' = MapRemove(sm_ip_counts, sm_loc[t].ip)
    /\ sm_pc' = [sm_pc EXCEPT ![t] = "idle"]
    /\ UNCHANGED <<sm_sessions, sm_max_per_ip, sm_max_total, sm_loc, sm_next_id, notSM>>

SMNext ==
    \/ \E t \in STasks, ip \in SIps : SCreateCheckTotal(t, ip)
    \/ \E t \in STasks : SCreateAdmit(t)
    \/ \E t \in STasks : SRemoveSession(t)
    \/ \E t \in STasks : SRemoveDecrement(t)
    \/ \E t \in STasks : SRemoveEntry(t)

\* the session group while another component's specification runs
SMParked ==
    /\ sm_sessions = <<>>
    /\ sm_ip_counts = <<>>
    /\ sm_max_per_ip = 0
    /\ sm_max_total = 0
    /\ sm_pc = <<>>
    /\ sm_loc = <<>>
    /\ sm_next_id = 0

--------------------------------------------------------------------------
(* server.rs: the connection tasks over the shared AppState, which run on  *)
(* a multi-threaded runtime.  A step is a stretch of one task between two  *)
(* points where other tasks' steps can change what it does next: the test  *)
(* of the global limit, the admission, changed(), the borrow with the      *)
(* session's lookup, the writes of an arm up to its `socket.send().await`  *)
(* or its daemon call, the resolution of the send, and each statement of   *)
(* the way out with each locked operation of remove_session.               *)
(* The clock counts milliseconds and moves in steps that outlast the       *)
(* message window and the grace; SpecRL and SpecJobs explore the instants  *)
(* around their ends.                                                      *)

\* config.limits.messages_per_second and submits_per_minute, and the
\* messages_per_second under which one session's submissions are explored
MessagesPerSecond == RLMaxCount - 1
SubmitsPerMinute == RLMaxCount - 1
SubmitMessagesPerSecond == RLMaxCount

\* config.monerod.reserve_size
ReserveSize == JMaxReserve

\* SessionLimits::new: the windows Duration::from_secs(1) and from_secs(60)
MessageWindowMs == 1000
SubmitWindowMs == 60000

\* SubmissionValidator::new: min_blob_len
min_blob_len == 76

\* the clock moves from 0 to MaxTime in steps of TickMs, which is longer
\* than the message window and than the grace
TickMs == MessageWindowMs + JGrace
MaxTime == TickMs

\* config.jobs.job_ttl_ms: a job is swept one step of the clock after it
\* was made
JobTtlMs == TickMs

\* templates published per behaviour
MaxTemplates == Cardinality(JTemplateIds)

\* the connections (sockets) of a behaviour and the addresses they come from
Conns == {1, 2}

\* the address a connection comes from: all from one
IpOf(c) == "ipA"

\* the connection caps explored: a second connection while the first is
\* open is refused by the total cap under one, by the per-IP cap under the
\* other
Configs ==
    {[max_connections |-> 1, max_connections_per_ip |-> 2,
      messages_per_second |-> MessagesPerSecond, submits_per_minute |-> SubmitsPerMinute],
     [max_connections |-> 2, max_connections_per_ip |-> 1,
      messages_per_second |-> MessagesPerSecond, submits_per_minute |-> SubmitsPerMinute]}

\* text frames received per behaviour
MaxFrames == Cardinality(Conns)

\* ids as Uuid::new_v4().to_string() gives them, each as its 36 bytes:
\* "000b97cb-757e-4787-b498-943c4583ac65",
\* "000e19c5-6029-4d6c-bf98-1032d6160583", which starts with the same three
\* bytes, and "629997f7-cedd-4bfc-b712-81df14c74b4c"
UuidA ==
    <<48, 48, 48, 98, 57, 55, 99, 98, 45, 55, 53, 55, 101, 45, 52, 55, 56, 55, 45,
      98, 52, 57, 56, 45, 57, 52, 51, 99, 52, 53, 56, 51, 97, 99, 54, 53>>
UuidB ==
    <<48, 48, 48, 101, 49, 57, 99, 53, 45, 54, 48, 50, 57, 45, 52, 100, 54, 99, 45,
      98, 102, 57, 56, 45, 49, 48, 51, 50, 100, 54, 49, 54, 48, 53, 56, 51>>
UuidC ==
    <<54, 50, 57, 57, 57, 55, 102, 55, 45, 99, 101, 100, 100, 45, 52, 98, 102, 99, 45,
      98, 55, 49, 50, 45, 56, 49, 100, 102, 49, 52, 99, 55, 52, 98, 52, 99>>

\* Uuid::new_v4() when the ids in drawn have been drawn: an id that none of
\* them is.  Ids are opaque but for how their leading bytes compare, so the
\* first id drawn is UuidA and the next one either starts as it does or
\* does not.
NewV4(drawn) == IF drawn = {} THEN {UuidA} ELSE {UuidB, UuidC} \ drawn

\* SessionLimits::new
SessionLimitsNew(messages_per_second, submits_per_minute) ==
    [messages |-> RateLimiterNew(messages_per_second, MessageWindowMs),
     submits |-> RateLimiterNew(submits_per_minute, SubmitWindowMs)]

\* Session::new at time t; an Option is <<>> for None and <<x>> for Some(x).
\* The Instant connected_at is read by nothing.
SessionNewFull(id, ip, messages_per_second, submits_per_minute, t) ==
    [id |-> id, ip |-> ip, state |-> "Connected", client_version |-> <<>>,
     threads |-> 1, current_job_id |-> <<>>, current_reserved_value |-> <<>>,
     last_activity |-> t,
     limits |-> SessionLimitsNew(messages_per_second, submits_per_minute)]

\* impl Clone for Session: the literals of `limits: SessionLimits::new(20, 120)`
CloneMessagesPerSecond == 20
CloneSubmitsPerMinute == 120

\* impl Clone for Session: every field is cloned but limits, which is built
\* anew from the literals
SessionClone(s) ==
    [s EXCEPT !.limits = SessionLimitsNew(CloneMessagesPerSecond, CloneSubmitsPerMinute)]

\* SessionManager::create_session after its test of the global limit
\* (lines 115-123, under the lock of the ip's entry), and the whole of it
\* as one operation: the Option returned and the registry it leaves.  The
\* registry receives session.clone(); the session built from the configured
\* limits is the one returned to the caller, whose limiters no handler
\* consults.
AdmitSession(sess, counts, id, ip, max_per_ip, msgs_per_second, subs_per_minute, t) ==
    LET entered == EntryOrInsertZero(counts, ip)
    IN  IF entered[ip] >= max_per_ip
        THEN [some |-> FALSE, sessions |-> sess, ip_counts |-> entered]
        ELSE [some |-> TRUE,
              sessions |-> MapInsert(sess, id,
                              SessionClone(SessionNewFull(id, ip, msgs_per_second,
                                                          subs_per_minute, t))),
              ip_counts |-> [entered EXCEPT ![ip] = @ + 1]]
create_session(sess, counts, id, ip, max_per_ip, max_total, msgs_per_second, subs_per_minute, t) ==
    IF GlobalLimitReached(sess, max_total)
    THEN [some |-> FALSE, sessions |-> sess, ip_counts |-> counts]
    ELSE AdmitSession(sess, counts, id, ip, max_per_ip, msgs_per_second, subs_per_minute, t)

\* cleanup_idle, lines 174-178: the ids whose last_activity lies more than
\* max_idle before t
IdleIds(sess, max_idle, t) == {id \in DOMAIN sess : t - sess[id].last_activity > max_idle}

\* SessionManager::check_message_limit: false for a missing session
check_message_limitMutant(sess, id, t) ==
    IF id \notin DOMAIN sess THEN [sessions |-> sess, ok |-> FALSE]
    ELSE LET r == RateLimiterCheck(sess[id].limits.messages, t)
         IN  [sessions |-> [sess EXCEPT ![id].limits.messages = r.rl], ok |-> TRUE]
check_message_limit(sess, id, t) ==
    IF id \notin DOMAIN sess THEN [sessions |-> sess, ok |-> FALSE]
    ELSE LET r == RateLimiterCheck(sess[id].limits.messages, t)
         IN  [sessions |-> [sess EXCEPT ![id].limits.messages = r.rl], ok |-> r.ok]

\* SessionManager::check_submit_limit: false for a missing session
check_submit_limit(sess, id, t) ==
    IF id \notin DOMAIN sess THEN [sessions |-> sess, ok |-> FALSE]
    ELSE LET r == RateLimiterCheck(sess[id].limits.submits, t)
         IN  [sessions |-> [sess EXCEPT ![id].limits.submits = r.rl], ok |-> r.ok]

\* update_session(id, |s| s.set_ready(client_version, threads))
set_readyMutant(sess, id, client_version, threads) ==
    IF id \notin DOMAIN sess THEN sess
    ELSE [sess EXCEPT ![id].client_version = <<client_version>>,
                      ![id].threads = threads]
set_ready(sess, id, client_version, threads) ==
    IF id \notin DOMAIN sess THEN sess
    ELSE [sess EXCEPT ![id].client_version = <<client_version>>,
                      ![id].threads = threads,
                      ![id].state = "Ready"]

\* update_session(id, |s| s.update_job(job_id, reserved_value))
update_job(sess, id, job_id, reserved_value, t) ==
    IF id \notin DOMAIN sess THEN sess
    ELSE [sess EXCEPT ![id].current_job_id = <<job_id>>,
                      ![id].current_reserved_value = <<reserved_value>>,
                      ![id].last_activity = t]

\* update_session(id, |s| s.touch())
touch(sess, id, t) ==
    IF id \notin DOMAIN sess THEN sess ELSE [sess EXCEPT ![id].last_activity = t]

\* JobManager::create_job as one operation: the job and the manager after it
create_job(registry, ctr, template, session_bytes, t) ==
    LET job == BuildJob(template, session_bytes, FetchAdd(ctr).seq, t)
    IN  [job |-> job, jobs |-> MapInsert(registry, job.job_id, job),
         counter |-> FetchAdd(ctr).next]

\* TemplateState::from_rpc
from_rpc(rpc, template_id, reserve_size, t) ==
    [template_id |-> template_id, height |-> rpc.height,
     blocktemplate_blob |-> rpc.blocktemplate_blob, difficulty |-> rpc.difficulty,
     reserved_offset |-> rpc.reserved_offset, reserve_size |-> reserve_size,
     seed_hash |-> rpc.seed_hash, created_at |-> t]

\* TemplateManager::refresh_template: on the daemon's error nothing changes;
\* else the counter is incremented and the template sent with it as its id
refresh_templateMutant(ctr, fetched, reserve_size, t) ==
    IF ~fetched.ok THEN [ok |-> FALSE, template_counter |-> ctr + 1, send |-> <<>>]
    ELSE [ok |-> TRUE, template_counter |-> ctr + 1,
          send |-> <<from_rpc(fetched.template, ctr + 1, reserve_size, t)>>]
refresh_template(ctr, fetched, reserve_size, t) ==
    IF ~fetched.ok THEN [ok |-> FALSE, template_counter |-> ctr, send |-> <<>>]
    ELSE [ok |-> TRUE, template_counter |-> ctr + 1,
          send |-> <<from_rpc(fetched.template, ctr + 1, reserve_size, t)>>]

\* Metrics: one counter incremented / decremented
Inc(m, field) == [m EXCEPT ![field] = @ + 1]

\* Metrics::inc_connections
inc_connections(m) == Inc(Inc(m, "connections_total"), "connections_active")

\* Metrics::dec_connections
U64Max == "18446744073709551615"
dec_connections(m) == [m EXCEPT !.connections_active = IF @ = 0 THEN U64Max ELSE @ - 1]

\* ServerMessage::error(None, code, message)
ErrorMessage(code, message) == [type |-> "error", code |-> code, message |-> message]

\* ServerMessage::Pong
PongMessage(id) == [type |-> "pong", id |-> id]

\* ServerMessage::SubmitResult
SubmitResult(id, status, message) ==
    [type |-> "submit_result", id |-> id, status |-> status, message |-> message]

\* ServerMessage::Job built from a job (server.rs lines 132-140 and 212-220)
JobMessage(job) ==
    [type |-> "job", job_id |-> job.job_id, blob_hex |-> job.blob_hex,
     reserved_offset |-> job.reserved_offset,
     reserved_value_hex |-> HexEncode(job.reserved_value),
     target_hex |-> job.target_hex, height |-> job.height, seed_hash |-> job.seed_hash]

\* ServerMessage::Stats
StatsMessage(session_id, limits) ==
    [type |-> "stats", session_id |-> session_id,
     submits_per_minute |-> limits.submits_per_minute,
     messages_per_second |-> limits.messages_per_second]

\* socket.send: the socket's record of what was sent, the count and the last
Send(s, msg) == [n |-> s.n + 1, last |-> msg]

\* the offset of the 4-byte nonce in a Monero block blob
NonceOffset == 39

\* Job::apply_nonce: the job's blob with the 4 nonce bytes written at the
\* nonce offset; an error for bad hex, a wrong nonce length or a short blob
apply_nonce(job, nonce) ==
    LET b == HexDecode(job.blob_hex)
        n == HexDecode(nonce)
    IN  IF ~b.ok \/ ~n.ok \/ Len(n.bytes) # 4 \/ Len(b.bytes) < NonceOffset + 4
        THEN [ok |-> FALSE, blob |-> <<>>]
        ELSE [ok |-> TRUE,
              blob |-> [p \in 1..Len(b.bytes) |->
                           IF p - 1 >= NonceOffset /\ p - 1 < NonceOffset + 4
                           THEN n.bytes[p - NonceOffset] ELSE b.bytes[p]]]

\* validate_blob after the hex decoding (lines 57-72): the length, the
\* bounds of the reserved region and its bytes, each with its error text
ValidateBytesMutant(blob, job) ==
    IF Len(blob) < min_blob_len THEN [ok |-> FALSE, message |-> "Blob too short"]
    ELSE IF job.reserved_offset + Len(job.reserved_value) > Len(blob)
    THEN [ok |-> FALSE, message |-> "Invalid blob structure"]
    ELSE IF \E i \in 1..(Len(job.reserved_value) - 1) :
                blob[job.reserved_offset + i] # job.reserved_value[i]
    THEN [ok |-> FALSE, message |-> "Reserved value mismatch"]
    ELSE [ok |-> TRUE, message |-> ""]
ValidateBytes(blob, job) ==
    IF Len(blob) < min_blob_len THEN [ok |-> FALSE, message |-> "Blob too short"]
    ELSE IF job.reserved_offset + Len(job.reserved_value) > Len(blob)
    THEN [ok |-> FALSE, message |-> "Invalid blob structure"]
    ELSE IF \E i \in 1..Len(job.reserved_value) :
                blob[job.reserved_offset + i] # job.reserved_value[i]
    THEN [ok |-> FALSE, message |-> "Reserved value mismatch"]
    ELSE [ok |-> TRUE, message |-> ""]

\* SubmissionValidator::validate_blob: Ok(blob) or Err(Validation(message))
validate_blob(blob_hex, job) ==
    LET d == HexDecode(blob_hex)
    IN  IF ~d.ok THEN [ok |-> FALSE, blob |-> <<>>, message |-> "Invalid hex"]
        ELSE LET v == ValidateBytes(d.bytes, job)
             IN  [ok |-> v.ok, blob |-> IF v.ok THEN d.bytes ELSE <<>>, message |-> v.message]

\* SubmissionValidator::validate_submission: validate_blob's checks on the
\* reconstructed bytes
validate_submission(blob, job) == ValidateBytes(blob, job)

\* CoordinatorError::Validation(message).to_string(): "Validation error: "
\* followed by the message
ValidationDisplay(message) == "Validation error: " \o message

\* SubmissionValidator::new: no VM, the empty seed hash
SubmissionValidatorNew == [vm |-> <<>>, current_seed_hash |-> <<>>]

\* SubmissionValidator::init_vm on the validator's two fields, all under
\* the write lock of current_seed_hash: Ok at once when the seed is the
\* cached one; else hex::decode, RandomXCache::new (cache_ok) and
\* RandomXVM::new (vm_ok), each returning its error before anything is
\* written; then the VM and the seed hash are stored
InitVmMutant(val, seed_hash, cache_ok, vm_ok) ==
    IF val.current_seed_hash = seed_hash THEN [ok |-> TRUE, validator |-> val]
    ELSE IF ~HexDecode(seed_hash).ok \/ ~cache_ok
    THEN [ok |-> FALSE, validator |-> val]
    ELSE IF ~vm_ok
    THEN [ok |-> FALSE, validator |-> [val EXCEPT !.current_seed_hash = seed_hash]]
    ELSE [ok |-> TRUE, validator |-> [vm |-> <<seed_hash>>, current_seed_hash |-> seed_hash]]
InitVm(val, seed_hash, cache_ok, vm_ok) ==
    IF val.current_seed_hash = seed_hash THEN [ok |-> TRUE, validator |-> val]
    ELSE IF ~HexDecode(seed_hash).ok \/ ~cache_ok \/ ~vm_ok
    THEN [ok |-> FALSE, validator |-> val]
    ELSE [ok |-> TRUE, validator |-> [vm |-> <<seed_hash>>, current_seed_hash |-> seed_hash]]

\* SubmissionValidator::compute_hash, lines 79-81: the VM read under the
\* read lock is the one the hash is computed with; an error without a VM
ComputeHash(val) ==
    IF val.vm = <<>> THEN [ok |-> FALSE, key |-> <<>>]
    ELSE [ok |-> TRUE, key |-> val.vm]

\* SubmissionValidator::compute_hash on what calculate_hash gave: without a
\* VM a Validation error (lines 79-81); the error of calculate_hash and a
\* wrong length become Validation errors (lines 83-92); each shown as
\* handle_message shows it (e.to_string())
compute_hash(val, raw) ==
    IF ~ComputeHash(val).ok
    THEN [ok |-> FALSE, hash |-> <<>>,
          message |-> ValidationDisplay("RandomX VM not initialized")]
    ELSE IF ~raw.ok
    THEN [ok |-> FALSE, hash |-> <<>>,
          message |-> ValidationDisplay("Hash computation failed: " \o raw.error)]
    ELSE IF Len(raw.hash) # 32
    THEN [ok |-> FALSE, hash |-> <<>>,
          message |-> ValidationDisplay("Unexpected hash length: expected 32, got "
                                        \o ToString(Len(raw.hash)))]
    ELSE [ok |-> TRUE, hash |-> raw.hash, message |-> ""]

\* handle_message lines 283-289: <<>> when the reconstructed blob passes
\* validate_submission, else the SubmitResult the arm returns
ValidationReply(id, blob, job) ==
    LET v == validate_submission(blob, job)
    IN  IF v.ok THEN <<>>
        ELSE <<[type |-> "submit_result", id |-> id, status |-> "REJECTED",
                message |-> ValidationDisplay(v.message)]>>

\* check_meets_target: from byte 31 down, the first differing byte decides
RECURSIVE MeetsFrom(_, _, _)
MeetsFrom(hash, target, i) ==
    IF i = 0 THEN TRUE
    ELSE IF hash[i] < target[i] THEN TRUE
    ELSE IF hash[i] > target[i] THEN FALSE
    ELSE MeetsFrom(hash, target, i - 1)

\* SubmissionValidator::check_meets_target
check_meets_targetMutant(hash, target) == TRUE
check_meets_targetStrict(hash, target) == hash # target /\ MeetsFrom(hash, target, 32)
check_meets_target(hash, target) == MeetsFrom(hash, target, 32)

\* server.rs lines 317-321: the job's target decoded into [u8; 32], zeros
\* when it does not decode to 32 bytes
TargetArr(target_hex) ==
    LET target == UnwrapOrDefault(HexDecode(target_hex))
    IN  IF Len(target) = 32 THEN target ELSE [i \in 1..32 |-> 0]

\* server.rs lines 257-260: the published template's id, 0 when there is none
CurrentTemplateId(slot) == IF slot.value = <<>> THEN 0 ELSE slot.value[1].template_id

\* handle_message, Submit, lines 233-299: the checks up to and with init_vm.
\* built is what building the VM gives.  The result is the state left behind
\* and either a reply or the job and the blob the task goes on to hash.
SubmitChecks(sess, m, val, sid, frame, built) ==
    LET lim == check_submit_limit(sess, sid, now)
        m1 == Inc(m, "submissions_total")
        got == get_job(jobs, frame.job_id)
        Reject(text, val2) ==
            [sessions |-> lim.sessions, metrics |-> Inc(m1, "submissions_rejected"),
             validator |-> val2, hash |-> FALSE, blob |-> <<>>,
             reply |-> SubmitResult(frame.id, "REJECTED", text)]
    IN  IF ~lim.ok
        THEN [sessions |-> lim.sessions, metrics |-> Inc(m, "rate_limits_hit"),
              validator |-> val, hash |-> FALSE, blob |-> <<>>,
              reply |-> SubmitResult(frame.id, "ERROR", "Submit rate exceeded")]
        ELSE IF ~got.some THEN Reject("Unknown job", val)
        ELSE IF is_stale(got.job, CurrentTemplateId(template_slot), now, JGrace)
        THEN [sessions |-> lim.sessions, metrics |-> Inc(m1, "submissions_stale"),
              validator |-> val, hash |-> FALSE, blob |-> <<>>,
              reply |-> SubmitResult(frame.id, "STALE", "Job expired")]
        ELSE LET applied == apply_nonce(got.job, frame.nonce)
                 vm == InitVm(val, got.job.seed_hash, built, built)
                 invalid == IF applied.ok THEN ValidationReply(frame.id, applied.blob, got.job)
                            ELSE <<>>
             IN  IF ~applied.ok THEN Reject("Invalid nonce", val)
                 ELSE IF invalid # <<>> THEN Reject(invalid[1].message, val)
                 ELSE IF ~vm.ok THEN Reject("Hash verification unavailable", vm.validator)
                 ELSE [sessions |-> lim.sessions, metrics |-> m1, validator |-> vm.validator,
                       hash |-> TRUE, job |-> <<got.job>>, blob |-> HexEncode(applied.blob),
                       reply |-> <<>>]

\* handle_message, Submit, lines 301-326: compute_hash on the validator as
\* it is when the task comes to it, and the target test.  hashed is what
\* calculate_hash gives.  The result is the metrics left behind and either
\* a reply or the hash with which the blob is forwarded.
HashChecks(m, val, id, job, hashed) ==
    LET computed == compute_hash(val, hashed)
        Reject(text) ==
            [metrics |-> Inc(m, "submissions_rejected"), forward |-> FALSE, hash |-> <<>>,
             reply |-> <<SubmitResult(id, "REJECTED", text)>>]
    IN  IF ~computed.ok THEN Reject(computed.message)
        ELSE IF ~check_meets_target(computed.hash, TargetArr(job.target_hex))
        THEN Reject("Hash does not meet target")
        ELSE [metrics |-> m, forward |-> TRUE, hash |-> computed.hash, reply |-> <<>>]

\* handle_socket, lines 97-110: what the handler does with create_session's
\* result: the metrics, what it sends and whether it enters the loop
HandleSocketEntryMutant(created, m) ==
    IF created.some THEN [enter |-> TRUE, metrics |-> inc_connections(m), out |-> <<>>]
    ELSE [enter |-> FALSE, metrics |-> inc_connections(m),
          out |-> <<ErrorMessage("RATE_LIMIT", "Connection limit exceeded")>>]
HandleSocketEntry(created, m) ==
    IF created.some THEN [enter |-> TRUE, metrics |-> inc_connections(m), out |-> <<>>]
    ELSE [enter |-> FALSE, metrics |-> m,
          out |-> <<ErrorMessage("RATE_LIMIT", "Connection limit exceeded")>>]

\* the seed hash of an epoch, and the seed hashes the daemon's first
\* template may carry: that one, or the empty string, which is what a new
\* SubmissionValidator holds as its current seed hash
EpochSeed == <<"a", "b">>
DaemonSeeds(n) == IF n = 1 THEN {EpochSeed, <<>>} ELSE {EpochSeed}

\* what the daemon's n-th get_block_template returns: a blob of min_blob_len
\* zero bytes at difficulty 2; the reserved region lies inside the first
\* blob and runs over the end of the later ones
DaemonTemplate(n, seed_hash) ==
    [height |-> 6 + n, blocktemplate_blob |-> [i \in 1..(2 * min_blob_len) |-> "0"],
     difficulty |-> 2, reserved_offset |-> IF n = 1 THEN 60 ELSE 75,
     seed_hash |-> seed_hash]

\* the locals of connection c's task while it waits in socket.send(msg).await:
\* the message, and where the task goes on when the send succeeds or fails
Awaiting(l, c, msg, on_ok, on_err) ==
    [l EXCEPT ![c].out = <<msg>>, ![c].on_ok = on_ok, ![c].on_err = on_err]

\* `if socket.send(..).await.is_err() { break; }` (lines 141-143 and
\* 162-164): the loop goes on after the send, or is left when it fails
SendOrBreak(l, c, msg) == Awaiting(l, c, msg, "loop", "leaving")

\* `let _ = socket.send(..).await;` (lines 155 and 171): the result of the
\* send is dropped and the loop goes on
SendIgnoringResult(l, c, msg) == Awaiting(l, c, msg, "loop", "loop")

\* `let _ = socket.send(..).await; return;` (lines 102-103)
SendAndReturn(l, c, msg) == Awaiting(l, c, msg, "refused", "refused")

\* the end of an arm whose writes leave the registry as sess and the metrics
\* as m: the task is suspended in the send of its message
ArmWrites(c, sess, m) ==
    /\ sessions' = sess
    /\ metrics' = m
    /\ pc' = [pc EXCEPT ![c] = "sending"]
    /\ UNCHANGED <<ip_counts, sent>>

\* the nonces clients send: eight hex digits, or not hex
Nonces == {<<"0", "0", "0", "0", "0", "0", "0", "1">>, <<"z", "z">>}

\* what vm.calculate_hash may give for a blob: an error, a 32-byte hash
\* equal to or above the target of difficulty 2, or bytes of another length
HashOutcomes ==
    {[ok |-> FALSE, hash |-> <<>>, error |-> "randomx failure"]} \cup
    {[ok |-> TRUE, hash |-> h, error |-> ""] :
        h \in {difficulty_to_target(2), [i \in 1..32 |-> 255], [i \in 1..31 |-> 0]}}

\* handle_socket, line 107: session_id, the id of the session created for
\* connection c; <<>> while none has been created
SessionIdOf(c) == loc[c].session_id

\* the job ids the client of connection c submits: those of the registry,
\* the one its session was last given, and one that was never issued
SubmittedJobIds(c) ==
    DOMAIN jobs \cup {<<"n", "o", "n", "e">>} \cup
    (IF SessionIdOf(c) \in DOMAIN sessions
     THEN {sessions[SessionIdOf(c)].current_job_id[i] :
              i \in DOMAIN sessions[SessionIdOf(c)].current_job_id}
     ELSE {})

\* AppState at startup (main.rs): empty registries, no template, no VM
SrvInit ==
    /\ now = 0
    /\ sessions = <<>>
    /\ ip_counts = <<>>
    /\ jobs = <<>>
    /\ counter = 0
    /\ template_slot = [value |-> <<>>, version |-> 0, closed |-> FALSE]
    /\ template_counter = 0
    /\ validator = SubmissionValidatorNew
    /\ metrics = [connections_total |-> 0, connections_active |-> 0,
                  messages_received |-> 0, submissions_total |-> 0,
                  submissions_accepted |-> 0, submissions_rejected |-> 0,
                  submissions_stale |-> 0, jobs_created |-> 0,
                  templates_received |-> 0, rate_limits_hit |-> 0]
    /\ pc = [c \in Conns |-> "new"]
    /\ loc = [c \in Conns |-> [session_id |-> <<>>, minted |-> {}, seen |-> 0, req |-> <<>>,
                               job |-> <<>>, blob |-> <<>>, hash |-> <<>>,
                               socket |-> "open", template |-> <<>>, out |-> <<>>,
                               on_ok |-> "loop", on_err |-> "loop"]]
    /\ sent = [c \in Conns |-> [n |-> 0, last |-> [type |-> "none"]]]
    /\ daemon_calls = 0
    /\ config \in Configs
    /\ frames_left = MaxFrames

\* handle_socket, line 97, with create_session, lines 110-112: the test of
\* the global limit; a full registry refuses the connection (99-104)
ConnectCheckTotal(c) ==
    /\ pc[c] = "new"
    /\ IF GlobalLimitReached(sessions, config.max_connections)
       THEN LET entry == HandleSocketEntry([some |-> FALSE], metrics)
            IN  /\ metrics' = entry.metrics
                /\ pc' = [pc EXCEPT ![c] = "sending"]
                /\ loc' = SendAndReturn(loc, c, entry.out[1])
       ELSE /\ pc' = [pc EXCEPT ![c] = "creating"]
            /\ UNCHANGED <<metrics, loc>>
    /\ UNCHANGED <<now, sessions, ip_counts, jobs, counter, template_slot, template_counter,
                   validator, sent, daemon_calls, config, frames_left, notSrv>>

\* create_session, lines 115-123: the per-IP test, the count, Session::new
\* with the id it draws and the insertion, under the lock of the ip's
\* entry; or the refusal (99-104)
ConnectAdmit(c) ==
    /\ pc[c] = "creating"
    /\ \E id \in NewV4({loc[d].session_id : d \in Conns} \ {<<>>}) :
       LET created == AdmitSession(sessions, ip_counts, id, IpOf(c),
                                   config.max_connections_per_ip,
                                   config.messages_per_second, config.submits_per_minute, now)
           entry == HandleSocketEntry(created, metrics)
       IN  /\ sessions' = created.sessions
           /\ ip_counts' = created.ip_counts
           /\ IF entry.enter
              THEN /\ pc' = [pc EXCEPT ![c] = "created"]
                   /\ loc' = [loc EXCEPT ![c].session_id = id]
                   /\ UNCHANGED metrics
              ELSE /\ metrics' = entry.metrics
                   /\ pc' = [pc EXCEPT ![c] = "sending"]
                   /\ loc' = SendAndReturn(loc, c, entry.out[1])
    /\ UNCHANGED <<now, jobs, counter, template_slot, template_counter, validator,
                   sent, daemon_calls, config, frames_left, notSrv>>

\* handle_socket, lines 110-114: inc_connections and the clone of AppState's
\* receiver, which has seen no published version; the loop is entered
ConnectEnter(c) ==
    /\ pc[c] = "created"
    /\ metrics' = HandleSocketEntry([some |-> TRUE], metrics).metrics
    /\ loc' = [loc EXCEPT ![c].seen = 0]
    /\ pc' = [pc EXCEPT ![c] = "loop"]
    /\ UNCHANGED <<now, sessions, ip_counts, jobs, counter, template_slot, template_counter,
                   validator, sent, daemon_calls, config, frames_left, notSrv>>

\* handle_socket, lines 116-119: template_rx.changed() resolves and marks
\* the channel's version as seen
TemplateChanged(c) ==
    /\ pc[c] = "loop"
    /\ template_slot.version # loc[c].seen
    /\ loc' = [loc EXCEPT ![c].seen = template_slot.version]
    /\ pc' = [pc EXCEPT ![c] = "changed"]
    /\ UNCHANGED <<now, sessions, ip_counts, jobs, counter, template_slot, template_counter,
                   validator, metrics, sent, daemon_calls, config, frames_left, notSrv>>

\* handle_socket, lines 122-125: template_rx.borrow().clone() reads the
\* value the channel holds now, get_session the session; the arm goes on
\* only with a template for a session that is Ready
ChangedBorrow(c) ==
    /\ pc[c] = "changed"
    /\ IF /\ template_slot.value # <<>>
          /\ SessionIdOf(c) \in DOMAIN sessions
          /\ sessions[SessionIdOf(c)].state = "Ready"
       THEN /\ loc' = [loc EXCEPT ![c].template = template_slot.value]
            /\ pc' = [pc EXCEPT ![c] = "minting"]
       ELSE /\ pc' = [pc EXCEPT ![c] = "loop"]
            /\ UNCHANGED loc
    /\ UNCHANGED <<now, sessions, ip_counts, jobs, counter, template_slot, template_counter,
                   validator, metrics, sent, daemon_calls, config, frames_left, notSrv>>

\* handle_socket, lines 126-141: create_job from the borrowed template,
\* inc_jobs, update_session (which does nothing for a session removed since
\* get_session), and the Job message, whose send is awaited
ChangedMint(c) ==
    /\ pc[c] = "minting"
    /\ \E made \in {create_job(jobs, counter, loc[c].template[1], SessionIdOf(c), now)} :
          /\ jobs' = made.jobs
          /\ counter' = made.counter
          /\ ArmWrites(c, update_job(sessions, SessionIdOf(c), made.job.job_id,
                                     made.job.reserved_value, now),
                       Inc(metrics, "jobs_created"))
          /\ loc' = SendOrBreak([loc EXCEPT ![c].template = <<>>,
                                             ![c].minted = @ \cup {made.job.job_id}],
                                 c, JobMessage(made.job))
    /\ UNCHANGED <<now, template_slot, template_counter, validator,
                   daemon_calls, config, frames_left, notSrv>>

\* handle_socket, lines 151-156: a text frame refused by the message limiter
RecvRateLimited(c) ==
    /\ pc[c] = "loop"
    /\ frames_left > 0
    /\ frames_left' = frames_left - 1
    /\ LET lim == check_message_limit(sessions, SessionIdOf(c), now)
       IN  /\ ~lim.ok
           /\ ArmWrites(c, lim.sessions, Inc(metrics, "rate_limits_hit"))
    /\ loc' = SendIgnoringResult(loc, c, ErrorMessage("RATE_LIMIT", "Message rate exceeded"))
    /\ UNCHANGED <<now, jobs, counter, template_slot, template_counter,
                   validator, daemon_calls, config, notSrv>>

\* handle_socket, lines 151-166 with handle_message, lines 198-228: a Hello
\* frame; the session becomes Ready and gets a job, or Stats without template
RecvHello(c) ==
    /\ pc[c] = "loop"
    /\ frames_left > 0
    /\ frames_left' = frames_left - 1
    /\ LET sid == SessionIdOf(c)
           lim == check_message_limit(sessions, sid, now)
           ready == set_ready(lim.sessions, sid, "v1", 2)
           req == [loc EXCEPT ![c].req = <<[type |-> "hello"]>>]
       IN  /\ lim.ok
           /\ IF template_slot.value # <<>>
              THEN \E made \in {create_job(jobs, counter, template_slot.value[1], sid, now)} :
                      /\ jobs' = made.jobs
                      /\ counter' = made.counter
                      /\ ArmWrites(c, update_job(ready, sid, made.job.job_id,
                                                 made.job.reserved_value, now),
                                   Inc(Inc(metrics, "messages_received"), "jobs_created"))
                      /\ loc' = SendOrBreak([req EXCEPT ![c].minted = @ \cup {made.job.job_id}],
                                             c, JobMessage(made.job))
              ELSE /\ ArmWrites(c, ready, Inc(metrics, "messages_received"))
                   /\ loc' = SendOrBreak(req, c, StatsMessage(sid, config))
                   /\ UNCHANGED <<jobs, counter>>
    /\ UNCHANGED <<now, template_slot, template_counter, validator,
                   daemon_calls, config, notSrv>>

\* handle_socket, lines 151-166 with handle_message, lines 233-299: a Submit
\* frame; the checks up to init_vm end in a reply, whose send is awaited,
\* or leave the task before compute_hash with the job it cloned and the
\* blob it rebuilt.  init_vm returns with no lock held, so that other tasks
\* may call it before this one hashes
RecvSubmit(c, nonce, built) ==
    /\ pc[c] = "loop"
    /\ frames_left > 0
    /\ frames_left' = frames_left - 1
    /\ \E job_id \in SubmittedJobIds(c) :
       LET sid == SessionIdOf(c)
           frame == [type |-> "submit", id |-> "r", job_id |-> job_id, nonce |-> nonce]
           lim == check_message_limit(sessions, sid, now)
       IN  /\ lim.ok
           /\ \E r \in {SubmitChecks(lim.sessions, Inc(metrics, "messages_received"),
                                     validator, sid, frame, built)} :
                 /\ validator' = r.validator
                 /\ IF r.hash
                    THEN /\ sessions' = r.sessions
                         /\ metrics' = r.metrics
                         /\ pc' = [pc EXCEPT ![c] = "hashing"]
                         /\ loc' = [loc EXCEPT ![c].req = <<frame>>, ![c].job = r.job,
                                               ![c].blob = r.blob]
                         /\ UNCHANGED <<sent, ip_counts>>
                    ELSE /\ ArmWrites(c, r.sessions, r.metrics)
                         /\ loc' = SendOrBreak([loc EXCEPT ![c].req = <<frame>>], c, r.reply)
    /\ UNCHANGED <<now, jobs, counter, template_slot, template_counter, daemon_calls,
                   config, notSrv>>

\* handle_message, lines 301-332: the task hashes the blob with the VM the
\* validator holds now and compares the hash with the target of its job;
\* it ends in a reply, whose send is awaited, or in the call of
\* submit_block, on whose answer the task then waits
HashSubmit(c, hashed) ==
    /\ pc[c] = "hashing"
    /\ \E r \in {HashChecks(metrics, validator, loc[c].req[1].id, loc[c].job[1], hashed)} :
          IF r.forward
          THEN /\ daemon_calls' = daemon_calls + 1
               /\ pc' = [pc EXCEPT ![c] = "submitting"]
               /\ loc' = [loc EXCEPT ![c].hash = r.hash]
               /\ UNCHANGED <<sessions, metrics, sent, ip_counts>>
          ELSE /\ ArmWrites(c, sessions, r.metrics)
               /\ loc' = SendOrBreak([loc EXCEPT ![c].job = <<>>, ![c].blob = <<>>], c,
                                     r.reply[1])
               /\ UNCHANGED daemon_calls
    /\ UNCHANGED <<now, jobs, counter, template_slot, template_counter, validator, config,
                   frames_left, notSrv>>

\* what submit_block returns (rpc.rs 127-138): the status string of the
\* daemon's result, or an RpcError, shown by its Display
DaemonStatus == "OK"
DaemonError == "RPC error: -7 - Block not accepted"

\* handle_message, lines 327-349: submit_block returned Ok(status) or Err;
\* the outcome is counted and the reply's send awaited
DaemonReplyMutant(c, ok) ==
    /\ pc[c] = "submitting"
    /\ ArmWrites(c, sessions,
                 IF ok THEN Inc(metrics, "submissions_accepted") ELSE metrics)
    /\ loc' = SendOrBreak([loc EXCEPT ![c].job = <<>>, ![c].blob = <<>>, ![c].hash = <<>>], c,
                          IF ok THEN SubmitResult(loc[c].req[1].id, "ACCEPTED",
                                                  "Block submitted: " \o DaemonStatus)
                          ELSE SubmitResult(loc[c].req[1].id, "REJECTED",
                                            "Submission failed: " \o DaemonError))
    /\ UNCHANGED <<now, jobs, counter, template_slot,
                   template_counter, validator, daemon_calls, config, frames_left, notSrv>>
DaemonReply(c, ok) ==
    /\ pc[c] = "submitting"
    /\ ArmWrites(c, sessions,
                 IF ok THEN Inc(metrics, "submissions_accepted")
                 ELSE Inc(metrics, "submissions_rejected"))
    /\ loc' = SendOrBreak([loc EXCEPT ![c].job = <<>>, ![c].blob = <<>>, ![c].hash = <<>>], c,
                          IF ok THEN SubmitResult(loc[c].req[1].id, "ACCEPTED",
                                                  "Block submitted: " \o DaemonStatus)
                          ELSE SubmitResult(loc[c].req[1].id, "REJECTED",
                                            "Submission failed: " \o DaemonError))
    /\ UNCHANGED <<now, jobs, counter, template_slot,
                   template_counter, validator, daemon_calls, config, frames_left, notSrv>>

\* handle_socket, line 175: the client closes or the stream ends; the loop
\* is left
Close(c) ==
    /\ pc[c] = "loop"
    /\ pc' = [pc EXCEPT ![c] = "leaving"]
    /\ UNCHANGED <<now, sessions, ip_counts, jobs, counter, template_slot, template_counter,
                   validator, metrics, loc, sent, daemon_calls, config, frames_left, notSrv>>

\* handle_socket, lines 151-166 with handle_message, lines 229-232: a Ping
\* frame; the session is touched and the reply is Pong with the frame's id
RecvPing(c) ==
    /\ pc[c] = "loop"
    /\ frames_left > 0
    /\ frames_left' = frames_left - 1
    /\ LET sid == SessionIdOf(c)
           lim == check_message_limit(sessions, sid, now)
       IN  /\ lim.ok
           /\ ArmWrites(c, touch(lim.sessions, sid, now), Inc(metrics, "messages_received"))
    /\ LET frame == [type |-> "ping", id |-> "p"]
       IN  loc' = SendOrBreak([loc EXCEPT ![c].req = <<frame>>], c, PongMessage(frame.id))
    /\ UNCHANGED <<now, jobs, counter, template_slot, template_counter, validator,
                   daemon_calls, config, notSrv>>

\* handle_socket, lines 151-159 and 167-172: a text frame that is no
\* ClientMessage; BAD_FORMAT is sent, the result of the send dropped
RecvBadFormat(c) ==
    /\ pc[c] = "loop"
    /\ frames_left > 0
    /\ frames_left' = frames_left - 1
    /\ LET lim == check_message_limit(sessions, SessionIdOf(c), now)
       IN  /\ lim.ok
           /\ ArmWrites(c, lim.sessions, Inc(metrics, "messages_received"))
    /\ loc' = SendIgnoringResult(loc, c, ErrorMessage("BAD_FORMAT", "Invalid message format"))
    /\ UNCHANGED <<now, jobs, counter, template_slot, template_counter,
                   validator, daemon_calls, config, notSrv>>

\* socket.send(..).await resolves: the message is on the socket, or the
\* send fails on a broken one; the task goes on where the statement around
\* the send says
SendResolves(c) ==
    /\ pc[c] = "sending"
    /\ IF loc[c].socket = "open"
       THEN /\ sent' = [sent EXCEPT ![c] = Send(@, loc[c].out[1])]
            /\ pc' = [pc EXCEPT ![c] = loc[c].on_ok]
       ELSE /\ pc' = [pc EXCEPT ![c] = loc[c].on_err]
            /\ UNCHANGED sent
    /\ loc' = [loc EXCEPT ![c].out = <<>>, ![c].on_ok = "loop", ![c].on_err = "loop"]
    /\ UNCHANGED <<now, sessions, ip_counts, jobs, counter, template_slot, template_counter,
                   validator, metrics, daemon_calls, config, frames_left, notSrv>>

\* handle_socket, line 187: metrics.dec_connections() after the loop
LeaveDec(c) ==
    /\ pc[c] = "leaving"
    /\ metrics' = dec_connections(metrics)
    /\ pc' = [pc EXCEPT ![c] = "removing"]
    /\ UNCHANGED <<now, sessions, ip_counts, jobs, counter, template_slot, template_counter,
                   validator, loc, sent, daemon_calls, config, frames_left, notSrv>>

\* handle_socket, line 188, remove_session, line 154: sessions.remove(id);
\* nothing more for an id that is not registered
RemoveSession(c) ==
    /\ pc[c] = "removing"
    /\ IF SessionIdOf(c) \in DOMAIN sessions
       THEN /\ sessions' = MapRemove(sessions, SessionIdOf(c))
            /\ pc' = [pc EXCEPT ![c] = "decrementing"]
       ELSE /\ pc' = [pc EXCEPT ![c] = "closed"]
            /\ UNCHANGED sessions
    /\ UNCHANGED <<now, ip_counts, jobs, counter, template_slot, template_counter,
                   validator, metrics, loc, sent, daemon_calls, config, frames_left, notSrv>>

\* remove_session, lines 155-158: the count of the removed session's ip
\* (the connection's), entered as 0 when it is missing, is decremented
\* under the entry's lock
RemoveDecrement(c) ==
    /\ pc[c] = "decrementing"
    /\ LET entered == EntryOrInsertZero(ip_counts, IpOf(c))
           count == SaturatingSub(entered[IpOf(c)], 1)
       IN  /\ ip_counts' = [entered EXCEPT ![IpOf(c)] = count]
           /\ pc' = [pc EXCEPT ![c] = IF count = 0 THEN "dropping" ELSE "closed"]
    /\ UNCHANGED <<now, sessions, jobs, counter, template_slot, template_counter,
                   validator, metrics, loc, sent, daemon_calls, config, frames_left, notSrv>>

\* remove_session, lines 158-159: after drop(count), ip_counts.remove(ip)
\* removes the entry whatever it holds by then
RemoveEntry(c) ==
    /\ pc[c] = "dropping"
    /\ ip_counts' = MapRemove(ip_counts, IpOf(c))
    /\ pc' = [pc EXCEPT ![c] = "closed"]
    /\ UNCHANGED <<now, sessions, jobs, counter, template_slot, template_counter,
                   validator, metrics, loc, sent, daemon_calls, config, frames_left, notSrv>>

\* the peer of connection c goes away: from now on socket.send fails, while
\* frames it sent before may still arrive
SocketBreaks(c) ==
    /\ pc[c] \in {"loop", "hashing", "submitting", "sending"}
    /\ loc[c].socket = "open"
    /\ loc' = [loc EXCEPT ![c].socket = "broken"]
    /\ UNCHANGED <<now, sessions, ip_counts, jobs, counter, template_slot, template_counter,
                   validator, metrics, pc, sent, daemon_calls, config, frames_left, notSrv>>

\* the task of TemplateManager::run ends and with it the watch Sender
TemplateTaskEnds ==
    /\ ~template_slot.closed
    /\ template_slot' = [template_slot EXCEPT !.closed = TRUE]
    /\ UNCHANGED <<now, sessions, ip_counts, jobs, counter, template_counter, validator,
                   metrics, pc, loc, sent, daemon_calls, config, frames_left, notSrv>>

\* handle_socket, lines 116-119 and 185-188: template_rx.changed() is an
\* error once the Sender is gone and the last value was seen; the loop is left
ChannelClosed(c) ==
    /\ pc[c] = "loop"
    /\ template_slot.closed
    /\ template_slot.version = loc[c].seen
    /\ pc' = [pc EXCEPT ![c] = "leaving"]
    /\ UNCHANGED <<now, sessions, ip_counts, jobs, counter, template_slot, template_counter,
                   validator, metrics, loc, sent, daemon_calls, config, frames_left, notSrv>>

\* the max_idle with which cleanup_idle is called: one message window
MaxIdleMs == MessageWindowMs

\* watch::Sender::send: the value is stored and the version moves on, which
\* is what makes changed() ready in every receiver
WatchSendMutant(slot, value) == [slot EXCEPT !.value = value]
WatchSend(slot, value) == [slot EXCEPT !.value = value, !.version = @ + 1]

\* template.rs, run() calling refresh_template (lines 82-86 and 98-100):
\* the daemon fails, or its template gets the next id and is sent on the
\* watch channel
Publish(fetched_ok) ==
    /\ template_counter < MaxTemplates
    /\ ~template_slot.closed
    /\ \E seed_hash \in DaemonSeeds(template_counter + 1) :
       LET fetched == [ok |-> fetched_ok,
                       template |-> DaemonTemplate(template_counter + 1, seed_hash)]
           r == refresh_template(template_counter, fetched, ReserveSize, now)
       IN  /\ template_counter' = r.template_counter
           /\ template_slot' = IF r.send = <<>> THEN template_slot
                                ELSE WatchSend(template_slot, r.send)
           /\ metrics' = IF r.ok THEN Inc(metrics, "templates_received") ELSE metrics
    /\ UNCHANGED <<now, sessions, ip_counts, jobs, counter, validator, pc, loc, sent,
                   daemon_calls, config, frames_left, notSrv>>

\* time passes
Tick ==
    /\ now < MaxTime
    /\ now' = now + TickMs
    /\ UNCHANGED <<sessions, ip_counts, jobs, counter, template_slot, template_counter,
                   validator, metrics, pc, loc, sent, daemon_calls, config, frames_left, notSrv>>

\* MaxFrames frames never fill a limiter of CloneMessagesPerSecond, so the
\* refusal of a frame (RecvRateLimited) is a step of SubmitNext only.  The
\* client of connection 1 says Hello and submits; connection 2 is accepted
\* or refused beside it and closes, its client sending no frame, and the
\* template-change arm is followed on connection 1
Next ==
    \/ \E c \in Conns : ConnectCheckTotal(c)
    \/ \E c \in Conns : ConnectAdmit(c)
    \/ \E c \in Conns : ConnectEnter(c)
    \/ TemplateChanged(1)
    \/ ChangedBorrow(1)
    \/ ChangedMint(1)
    \/ RecvHello(1)
    \/ \E nonce \in Nonces, built \in BOOLEAN : RecvSubmit(1, nonce, built)
    \/ \E hashed \in HashOutcomes : HashSubmit(1, hashed)
    \/ \E ok \in BOOLEAN : DaemonReply(1, ok)
    \/ \E c \in Conns : Close(c)
    \/ \E c \in Conns : SendResolves(c)
    \/ \E c \in Conns : LeaveDec(c)
    \/ \E c \in Conns : RemoveSession(c)
    \/ \E c \in Conns : RemoveDecrement(c)
    \/ \E c \in Conns : RemoveEntry(c)
    \/ \E fetched_ok \in BOOLEAN : Publish(fetched_ok)
    \/ Tick

\* the steps of connection 1 and of what surrounds it
LiveNext ==
    \/ ConnectCheckTotal(1)
    \/ ConnectAdmit(1)
    \/ ConnectEnter(1)
    \/ TemplateChanged(1)
    \/ ChangedBorrow(1)
    \/ ChangedMint(1)
    \/ RecvHello(1)
    \/ \E nonce \in Nonces, built \in BOOLEAN : RecvSubmit(1, nonce, built)
    \/ \E hashed \in HashOutcomes : HashSubmit(1, hashed)
    \/ \E ok \in BOOLEAN : DaemonReply(1, ok)
    \/ Close(1)
    \/ SendResolves(1)
    \/ LeaveDec(1)
    \/ RemoveSession(1)
    \/ RemoveDecrement(1)
    \/ RemoveEntry(1)
    \/ \E fetched_ok \in BOOLEAN : Publish(fetched_ok)
    \/ Tick

\* the configuration under which one session's submissions are explored:
\* a Hello and a Submit fit into one second
SubmitConfig ==
    [max_connections |-> 1, max_connections_per_ip |-> 2,
     messages_per_second |-> SubmitMessagesPerSecond,
     submits_per_minute |-> SubmitsPerMinute]

\* the seconds before time 0 in which a flooding session sends frames:
\* as many as fill the submit limiter at CloneMessagesPerSecond frames each
FloodSeconds == CloneSubmitsPerMinute \div CloneMessagesPerSecond

\* RateLimiter::check called k >= 1 times at time t: the first call pops
\* the stamps older than the window, and a call appends t while fewer than
\* max_count stamps are kept
CheckedAt(rl, t, k) ==
    LET kept == DropOld(rl.timestamps, t - rl.window)
        room == IF rl.max_count > Len(kept) THEN rl.max_count - Len(kept) ELSE 0
        added == IF k < room THEN k ELSE room
    IN  [rl EXCEPT !.timestamps = kept \o [i \in 1..added |-> t]]

\* RateLimiter::check called k times at each of the times in the ascending
\* sequence times
RECURSIVE Checked(_, _, _)
Checked(rl, times, k) ==
    IF times = <<>> THEN rl
    ELSE Checked(CheckedAt(rl, Head(times), k), Tail(times), k)

\* the seconds of the flood, oldest first
FloodTimes == [i \in 1..FloodSeconds |-> 0 - (FloodSeconds + 1 - i) * TickMs]

\* the session of a connection that flooded before its Hello:
\* CloneMessagesPerSecond Submit frames for an unknown job in each of the
\* FloodSeconds seconds before time 0 (each passes check_message_limit and
\* check_submit_limit and is answered REJECTED), then
\* CloneMessagesPerSecond - 1 Ping frames at time 0 (each answered Pong),
\* whose first check evicts the message timestamps of the seconds before
\* and each of which touches the session
Flooded(sess, id) ==
    [sess EXCEPT ![id].limits =
                     [messages |-> Checked(Checked(@.messages, FloodTimes,
                                                   CloneMessagesPerSecond),
                                           <<0>>, CloneMessagesPerSecond - 1),
                      submits |-> Checked(@.submits, FloodTimes, CloneMessagesPerSecond)],
                 ![id].last_activity = 0]

\* frames received and replies sent during the flood, and its Submit frames
FloodFrames == FloodSeconds * CloneMessagesPerSecond + CloneMessagesPerSecond - 1
FloodSubmits == FloodSeconds * CloneMessagesPerSecond

\* the server's state after connection 1 was admitted, the first template
\* published and its Hello answered, all at time 0 under the configuration
\* cfg: connection 1 is Ready and holds job 0 of template 1, whose seed
\* hash is seed_hash; built by the
\* operators those steps use.  With flooded, the connection flooded between
\* its admission and its Hello, and both of its limiters are full after the
\* Hello.
AfterHelloOf(flooded, cfg, fetched) ==
    LET sid == UuidA
        created == create_session(<<>>, <<>>, sid, IpOf(1),
                                  cfg.max_connections_per_ip,
                                  cfg.max_connections,
                                  cfg.messages_per_second,
                                  cfg.submits_per_minute,
                                  0 - FloodSeconds * TickMs)
        template == from_rpc(fetched, 1, ReserveSize, 0)
        before == IF flooded THEN Flooded(created.sessions, sid) ELSE created.sessions
        lim == check_message_limit(before, sid, 0)
        made == create_job(<<>>, 0, template, sid, 0)
        frames == IF flooded THEN FloodFrames ELSE 0
        submits == IF flooded THEN FloodSubmits ELSE 0
    IN  [sessions |-> update_job(set_ready(lim.sessions, sid, "v1", 2), sid,
                                 made.job.job_id, made.job.reserved_value, 0),
         ip_counts |-> created.ip_counts,
         jobs |-> made.jobs,
         counter |-> made.counter,
         template_slot |-> [value |-> <<template>>, version |-> 1, closed |-> FALSE],
         metrics |-> [connections_total |-> 1, connections_active |-> 1,
                      messages_received |-> frames + 1, submissions_total |-> submits,
                      submissions_accepted |-> 0, submissions_rejected |-> submits,
                      submissions_stale |-> 0, jobs_created |-> 1,
                      templates_received |-> 1, rate_limits_hit |-> 0],
         sent |-> [n |-> frames + 1, last |-> JobMessage(made.job)]]
AfterHello(flooded, cfg, seed_hash) == AfterHelloOf(flooded, cfg, DaemonTemplate(1, seed_hash))

\* the server with the state AfterHello describes, MaxFrames more frames
\* to come
ServerAt(hello, cfg) ==
    /\ now = 0
    /\ sessions = hello.sessions
    /\ ip_counts = hello.ip_counts
    /\ jobs = hello.jobs
    /\ counter = hello.counter
    /\ template_slot = hello.template_slot
    /\ template_counter = 1
    /\ validator = SubmissionValidatorNew
    /\ metrics = hello.metrics
    /\ pc = [c \in Conns |-> IF c = 1 THEN "loop" ELSE "new"]
    /\ loc = [c \in Conns |-> [session_id |-> IF c = 1 THEN UuidA ELSE <<>>,
                               minted |-> IF c = 1 THEN DOMAIN hello.jobs
                                          ELSE {},
                               seen |-> 0, job |-> <<>>, blob |-> <<>>, hash |-> <<>>,
                               socket |-> "open", template |-> <<>>, out |-> <<>>,
                               on_ok |-> "loop", on_err |-> "loop",
                               req |-> IF c = 1 THEN <<[type |-> "hello"]>> ELSE <<>>]]
    /\ sent = [c \in Conns |-> IF c = 1 THEN hello.sent
                                ELSE [n |-> 0, last |-> [type |-> "none"]]]
    /\ daemon_calls = 0
    /\ config = cfg
    /\ frames_left = MaxFrames
ServerAfterHello(flooded, cfg, seed_hash) == ServerAt(AfterHello(flooded, cfg, seed_hash), cfg)

\* the submissions of one Ready session: Spec from AfterHello on
SubmitInit ==
    \E flooded \in BOOLEAN, seed_hash \in DaemonSeeds(1) :
        ServerAfterHello(flooded, SubmitConfig, seed_hash)

\* main.rs lines 66-75: the periodic sweep of the job registry
CleanupOldJobs ==
    /\ jobs' = cleanup_old_jobs(jobs, JobTtlMs, now)
    /\ jobs' # jobs
    /\ UNCHANGED <<now, sessions, ip_counts, counter, template_slot, template_counter,
                   validator, metrics, pc, loc, sent, daemon_calls, config, frames_left,
                   notSrv>>

\* what follows the Hello on connection 1 and around it
SubmitNext ==
    \/ TemplateChanged(1)
    \/ ChangedBorrow(1)
    \/ ChangedMint(1)
    \/ RecvRateLimited(1)
    \/ \E nonce \in Nonces, built \in BOOLEAN : RecvSubmit(1, nonce, built)
    \/ \E hashed \in HashOutcomes : HashSubmit(1, hashed)
    \/ \E ok \in BOOLEAN : DaemonReply(1, ok)
    \/ SendResolves(1)
    \/ \E fetched_ok \in BOOLEAN : Publish(fetched_ok)
    \/ CleanupOldJobs
    \/ Tick

\* the configuration under which the life of connections is explored: both
\* connections are admitted
ConnConfig ==
    [max_connections |-> 2, max_connections_per_ip |-> 2,
     messages_per_second |-> MessagesPerSecond, submits_per_minute |-> SubmitsPerMinute]

\* the life of connections: from a Ready session on, flooded or not; the
\* second connection comes later
ConnInit == \E flooded \in BOOLEAN : ServerAfterHello(flooded, ConnConfig, EpochSeed)

\* connections that say Hello, Ping or something unparsable, whose sockets
\* may break, and the template task, which may end, all within one message
\* window; the client of connection 2 says Hello and no more, and the
\* template-change arm is followed on connection 1
ConnNext ==
    \/ \E c \in Conns : ConnectCheckTotal(c)
    \/ \E c \in Conns : ConnectAdmit(c)
    \/ \E c \in Conns : ConnectEnter(c)
    \/ TemplateChanged(1)
    \/ ChangedBorrow(1)
    \/ ChangedMint(1)
    \/ RecvRateLimited(1)
    \/ \E c \in Conns : RecvHello(c)
    \/ RecvPing(1)
    \/ RecvBadFormat(1)
    \/ \E c \in Conns : Close(c)
    \/ \E c \in Conns : SendResolves(c)
    \/ \E c \in Conns : LeaveDec(c)
    \/ \E c \in Conns : RemoveSession(c)
    \/ \E c \in Conns : RemoveDecrement(c)
    \/ \E c \in Conns : RemoveEntry(c)
    \/ \E c \in Conns : SocketBreaks(c)
    \/ ChannelClosed(1)
    \/ TemplateTaskEnds
    \/ \E fetched_ok \in BOOLEAN : Publish(fetched_ok)

\* cleanup_idle, lines 170-178: Instant::now() and the collection of the
\* ids whose last_activity lies more than max_idle back; removed is 0
CleanupSnapshot ==
    /\ cl_pc \in {"idle", "done"}
    /\ cl_pc' = "removing"
    /\ cl_to_remove' = IdleIds(sessions, MaxIdleMs, now)
    /\ cl_removed' = 0
    /\ cl_idle' = IdleIds(sessions, MaxIdleMs, now)
    /\ cl_found' = {}
    /\ UNCHANGED <<cl_session, srvvars, notSrvCL>>

\* a call of cleanup_idle that finds a session idle; a call that finds none
\* leaves the registry as it is
CleanupFindsIdle ==
    /\ IdleIds(sessions, MaxIdleMs, now) # {}
    /\ CleanupSnapshot

\* cleanup_idle, lines 180-181, with remove_session, line 154: the loop takes
\* an id of to_remove and sessions.remove(id) takes its session out; for an
\* id it does not find remove_session is over, and removed += 1 (line 182)
CleanupRemove ==
    /\ cl_pc = "removing"
    /\ \E id \in cl_to_remove :
          /\ cl_to_remove' = cl_to_remove \ {id}
          /\ IF id \in DOMAIN sessions
             THEN /\ sessions' = MapRemove(sessions, id)
                  /\ cl_session' = <<sessions[id]>>
                  /\ cl_found' = cl_found \cup {id}
                  /\ cl_pc' = "decrementing"
                  /\ UNCHANGED cl_removed
             ELSE /\ cl_removed' = cl_removed + 1
                  /\ UNCHANGED <<sessions, cl_session, cl_found, cl_pc>>
    /\ UNCHANGED <<now, ip_counts, jobs, counter, template_slot, template_counter, validator,
                   metrics, pc, loc, sent, daemon_calls, config, frames_left, cl_idle,
                   notSrvCL>>

\* remove_session, lines 155-158: the count of the session's ip, entered as
\* 0 when it is missing, is decremented under the entry's lock; when it is
\* not 0 remove_session is over, and removed += 1 (line 182)
CleanupDecrement ==
    /\ cl_pc = "decrementing"
    /\ LET ip == cl_session[1].ip
           entered == EntryOrInsertZero(ip_counts, ip)
           count == SaturatingSub(entered[ip], 1)
       IN  /\ ip_counts' = [entered EXCEPT ![ip] = count]
           /\ IF count = 0
              THEN /\ cl_pc' = "dropping"
                   /\ UNCHANGED <<cl_removed, cl_session>>
              ELSE /\ cl_pc' = "removing"
                   /\ cl_removed' = cl_removed + 1
                   /\ cl_session' = <<>>
    /\ UNCHANGED <<now, sessions, jobs, counter, template_slot, template_counter, validator,
                   metrics, pc, loc, sent, daemon_calls, config, frames_left, cl_to_remove,
                   cl_idle, cl_found, notSrvCL>>

\* remove_session, line 159: after drop(count), ip_counts.remove(ip) removes
\* the entry whatever it holds by then; and removed += 1 (line 182)
CleanupDropEntry ==
    /\ cl_pc = "dropping"
    /\ ip_counts' = MapRemove(ip_counts, cl_session[1].ip)
    /\ cl_pc' = "removing"
    /\ cl_removed' = cl_removed + 1
    /\ cl_session' = <<>>
    /\ UNCHANGED <<now, sessions, jobs, counter, template_slot, template_counter, validator,
                   metrics, pc, loc, sent, daemon_calls, config, frames_left, cl_to_remove,
                   cl_idle, cl_found, notSrvCL>>

\* cleanup_idle, lines 185-189: the loop is over and removed is returned
CleanupReturn ==
    /\ cl_pc = "removing"
    /\ cl_to_remove = {}
    /\ cl_pc' = "done"
    /\ UNCHANGED <<cl_to_remove, cl_removed, cl_idle, cl_found, cl_session>>
    /\ UNCHANGED <<srvvars, notSrvCL>>

\* the connections beside idle eviction, with sockets that break:
\* connection 1 is the one evicted, connection 2 comes from the same address
\* and goes, its client sending no frame; the template published before the
\* first Hello, which connection 1's receiver has not seen, is the only one
EvictNext ==
    \/ \E c \in Conns : ConnectCheckTotal(c)
    \/ \E c \in Conns : ConnectAdmit(c)
    \/ \E c \in Conns : ConnectEnter(c)
    \/ TemplateChanged(1)
    \/ ChangedBorrow(1)
    \/ ChangedMint(1)
    \/ RecvRateLimited(1)
    \/ RecvPing(1)
    \/ \E c \in Conns : Close(c)
    \/ \E c \in Conns : SendResolves(c)
    \/ \E c \in Conns : LeaveDec(c)
    \/ \E c \in Conns : RemoveSession(c)
    \/ \E c \in Conns : RemoveDecrement(c)
    \/ \E c \in Conns : RemoveEntry(c)
    \/ SocketBreaks(1)
    \/ CleanupFindsIdle
    \/ CleanupRemove
    \/ CleanupDecrement
    \/ CleanupDropEntry
    \/ CleanupReturn
    \/ Tick

\* connections that come, ping and go while a task calls cleanup_idle
CleanupNext ==
    \/ \E c \in Conns : ConnectCheckTotal(c)
    \/ \E c \in Conns : ConnectAdmit(c)
    \/ \E c \in Conns : ConnectEnter(c)
    \/ \E c \in Conns : RecvHello(c)
    \/ \E c \in Conns : RecvPing(c)
    \/ \E c \in Conns : Close(c)
    \/ \E c \in Conns : SendResolves(c)
    \/ \E c \in Conns : LeaveDec(c)
    \/ \E c \in Conns : RemoveSession(c)
    \/ \E c \in Conns : RemoveDecrement(c)
    \/ \E c \in Conns : RemoveEntry(c)
    \/ CleanupSnapshot
    \/ CleanupRemove
    \/ CleanupDecrement
    \/ CleanupDropEntry
    \/ CleanupReturn
    \/ Tick

\* no cleanup_idle call has been made
CLInit ==
    /\ cl_pc = "idle"
    /\ cl_to_remove = {}
    /\ cl_removed = 0
    /\ cl_idle = {}
    /\ cl_found = {}
    /\ cl_session = <<>>

\* the cleanup group while another component's specification runs
CLParked == CLInit

\* the connections beside a task that calls cleanup_idle: the client of
\* connection 2 says Hello and no more, that of connection 1 pings too; the template published before the
\* first Hello, which connection 1's receiver has not seen, is the only one
IdleNext ==
    \/ \E c \in Conns : ConnectCheckTotal(c)
    \/ \E c \in Conns : ConnectAdmit(c)
    \/ \E c \in Conns : ConnectEnter(c)
    \/ TemplateChanged(1)
    \/ ChangedBorrow(1)
    \/ ChangedMint(1)
    \/ RecvRateLimited(1)
    \/ \E c \in Conns : RecvHello(c)
    \/ RecvPing(1)
    \/ \E c \in Conns : Close(c)
    \/ \E c \in Conns : SendResolves(c)
    \/ \E c \in Conns : LeaveDec(c)
    \/ \E c \in Conns : RemoveSession(c)
    \/ \E c \in Conns : RemoveDecrement(c)
    \/ \E c \in Conns : RemoveEntry(c)
    \/ CleanupFindsIdle
    \/ CleanupRemove
    \/ CleanupDecrement
    \/ CleanupDropEntry
    \/ CleanupReturn
    \/ Tick

\* two connections whose clients submit: the second connects beside the
\* Ready first one and submits before or after its own Hello
ShareNext ==
    \/ ConnectCheckTotal(2)
    \/ ConnectAdmit(2)
    \/ ConnectEnter(2)
    \/ \E c \in Conns : RecvHello(c)
    \/ \E c \in Conns, nonce \in Nonces, built \in BOOLEAN : RecvSubmit(c, nonce, built)
    \/ \E c \in Conns, hashed \in HashOutcomes : HashSubmit(c, hashed)
    \/ \E c \in Conns, ok \in BOOLEAN : DaemonReply(c, ok)
    \/ \E c \in Conns : Close(c)
    \/ \E c \in Conns : SendResolves(c)
    \/ \E c \in Conns : LeaveDec(c)
    \/ \E c \in Conns : RemoveSession(c)
    \/ \E c \in Conns : RemoveDecrement(c)
    \/ \E c \in Conns : RemoveEntry(c)
    \/ \E fetched_ok \in BOOLEAN : Publish(fetched_ok)
    \/ Tick

\* the server group while another component's specification runs
SrvParked ==
    /\ now = 0
    /\ sessions = <<>>
    /\ ip_counts = <<>>
    /\ jobs = <<>>
    /\ counter = 0
    /\ template_slot = <<>>
    /\ template_counter = 0
    /\ validator = SubmissionValidatorNew
    /\ metrics = <<>>
    /\ pc = <<>>
    /\ loc = <<>>
    /\ sent = <<>>
    /\ daemon_calls = 0
    /\ config = <<>>
    /\ frames_left = 0

--------------------------------------------------------------------------
(* protocol.rs: the messages and what serde derives for them.  A name is   *)
(* a sequence of characters; a Rust value of a message is a record with    *)
(* its variant's name; a JSON object is a function from keys to values.    *)
(* An Option is <<>> for None and <<x>> for Some(x); an id is held as an   *)
(* Option in every variant, Some(x) where the variant's id is a String.    *)

UpperLetters ==
    <<"A", "B", "C", "D", "E", "F", "G", "H", "I", "J", "K", "L", "M", "N", "O", "P", "Q", "R", "S", "T", "U", "V", "W", "X", "Y", "Z">>
LowerLetters ==
    <<"a", "b", "c", "d", "e", "f", "g", "h", "i", "j", "k", "l", "m", "n", "o", "p", "q", "r", "s", "t", "u", "v", "w", "x", "y", "z">>

\* char::is_uppercase, to_ascii_lowercase and to_ascii_uppercase
IsUppercase(ch) == \E i \in 1..Len(UpperLetters) : UpperLetters[i] = ch
ToAsciiLowercase(ch) ==
    IF IsUppercase(ch) THEN LowerLetters[CHOOSE i \in 1..Len(UpperLetters) : UpperLetters[i] = ch]
    ELSE ch
ToAsciiUppercase(ch) ==
    IF \E i \in 1..Len(LowerLetters) : LowerLetters[i] = ch
    THEN UpperLetters[CHOOSE i \in 1..Len(LowerLetters) : LowerLetters[i] = ch]
    ELSE ch

\* rename_all = "snake_case" on a variant's name: an underscore before
\* every upper-case letter but the first, all letters in lower case
RECURSIVE SnakeCaseFrom(_, _)
SnakeCaseFrom(name, i) ==
    IF i > Len(name) THEN <<>>
    ELSE (IF i > 1 /\ IsUppercase(name[i]) THEN <<"_">> ELSE <<>>)
         \o <<ToAsciiLowercase(name[i])>> \o SnakeCaseFrom(name, i + 1)
SnakeCaseMutant(name) == [i \in 1..Len(name) |-> ToAsciiLowercase(name[i])]
SnakeCase(name) == SnakeCaseFrom(name, 1)

\* rename_all = "SCREAMING_SNAKE_CASE": the snake case in upper case
ScreamingSnakeCase(name) ==
    LET snake == SnakeCase(name) IN [i \in 1..Len(snake) |-> ToAsciiUppercase(snake[i])]

\* enum SubmitStatus and enum ErrorCode: the names of their variants
SubmitStatus ==
    {<<"A", "c", "c", "e", "p", "t", "e", "d">>,
     <<"R", "e", "j", "e", "c", "t", "e", "d">>,
     <<"S", "t", "a", "l", "e">>,
     <<"E", "r", "r", "o", "r">>}
ErrorCode ==
    {<<"B", "a", "d", "F", "o", "r", "m", "a", "t">>,
     <<"U", "n", "a", "u", "t", "h", "o", "r", "i", "z", "e", "d">>,
     <<"R", "a", "t", "e", "L", "i", "m", "i", "t">>,
     <<"S", "t", "a", "l", "e", "J", "o", "b">>,
     <<"B", "a", "d", "J", "o", "b">>,
     <<"B", "a", "d", "R", "e", "s", "e", "r", "v", "e", "d">>,
     <<"B", "a", "d", "P", "o", "w">>,
     <<"I", "n", "t", "e", "r", "n", "a", "l">>,
     <<"R", "p", "c", "D", "o", "w", "n">>}

\* a struct without fields as a Rust value
NoFields == [k \in {} |-> {}]

\* JSON values, each with its kind: a string, a number (an integer here),
\* a boolean, null, an object (a function from keys to values) and an
\* array (a sequence of values)
JString(s) == [t |-> "string", v |-> s]
JNumber(n) == [t |-> "number", v |-> n]
JBool(b) == [t |-> "bool", v |-> b]
JNull == [t |-> "null", v |-> <<>>]
JObject(f) == [t |-> "object", v |-> f]
JArray(items) == [t |-> "array", v |-> items]

\* a field of a struct: its name, its type ("String", "u8", "u32", "u64",
\* "usize", "bool", "enum" or "struct"), whether it is an Option of that
\* type, and for an enum its variants, for a struct its fields
Field(name, ty) == [name |-> name, ty |-> ty, optional |-> FALSE, of |-> <<>>]
OptionField(name, ty) == [name |-> name, ty |-> ty, optional |-> TRUE, of |-> <<>>]
EnumField(name, variants) == [name |-> name, ty |-> "enum", optional |-> FALSE, of |-> <<variants>>]
StructField(name, fields) == [name |-> name, ty |-> "struct", optional |-> FALSE, of |-> <<fields>>]

\* the payload structs: their fields in the order of declaration; every
\* Option field has skip_serializing_if = "Option::is_none"
PolicyPayload ==
    <<Field("job_ttl_ms", "u64"), Field("max_submits_per_min", "u32"),
      Field("max_shares_per_min", "u32")>>
HelloPayload ==
    <<Field("miner_version", "String"), Field("threads", "u8"),
      OptionField("site_token", "String"), OptionField("user_agent_hint", "String"),
      OptionField("supports_binary", "bool"), OptionField("randomx_mode", "String")>>
SubmitPayload == <<Field("job_id", "String"), Field("nonce", "String")>>
SharePayload ==
    <<Field("job_id", "String"), Field("nonce", "u32"), Field("result_hash_hex", "String")>>
PingPayload == <<>>
StatsPayload ==
    <<Field("session_id", "String"), Field("submits_per_minute", "u32"),
      Field("messages_per_second", "u32"), StructField("policy", PolicyPayload),
      Field("server_time_ms", "u64"), Field("tip_height", "u64")>>
JobPayload ==
    <<Field("job_id", "String"), Field("blob_hex", "String"), Field("reserved_offset", "usize"),
      Field("reserved_value_hex", "String"), Field("target_hex", "String"),
      Field("height", "u64"), Field("seed_hash", "String"), Field("expires_at_ms", "u64"),
      OptionField("share_target_hex", "String"), Field("algo", "String")>>
SubmitResultPayload == <<EnumField("status", SubmitStatus), OptionField("message", "String")>>
ErrorPayload == <<EnumField("code", ErrorCode), Field("message", "String")>>
PongPayload == <<>>

\* a variant of a message enum: its name and its fields v, id (an
\* Option<String> or a String) and payload
Variant(name, id_optional, payload) ==
    [name |-> name, id_optional |-> id_optional,
     fields |-> <<Field("v", "u8"),
                  IF id_optional THEN OptionField("id", "String") ELSE Field("id", "String"),
                  StructField("payload", payload)>>]

\* enum ClientMessage and enum ServerMessage
ClientMessage ==
    <<Variant(<<"H", "e", "l", "l", "o">>, TRUE, HelloPayload),
      Variant(<<"S", "u", "b", "m", "i", "t">>, FALSE, SubmitPayload),
      Variant(<<"S", "h", "a", "r", "e">>, TRUE, SharePayload),
      Variant(<<"P", "i", "n", "g">>, FALSE, PingPayload)>>
ServerMessage ==
    <<Variant(<<"S", "t", "a", "t", "s">>, TRUE, StatsPayload),
      Variant(<<"J", "o", "b">>, TRUE, JobPayload),
      Variant(<<"S", "u", "b", "m", "i", "t", "R", "e", "s", "u", "l", "t">>, FALSE,
              SubmitResultPayload),
      Variant(<<"E", "r", "r", "o", "r">>, TRUE, ErrorPayload),
      Variant(<<"P", "o", "n", "g">>, FALSE, PongPayload)>>

\* the enum a call names
MessagesOf(enum) == IF enum = "ClientMessage" THEN ClientMessage ELSE ServerMessage

\* derive(Serialize): a string, an integer and a bool are written as they
\* are, an enum's unit variant as its renamed name, a struct as the object
\* with a key for every field but the Options that are None
RECURSIVE SerializeStruct(_, _)
SerializeField(value, field) ==
    CASE field.ty = "String" -> JString(value)
      [] field.ty = "bool" -> JBool(value)
      [] field.ty = "enum" -> JString(ScreamingSnakeCase(value))
      [] field.ty = "struct" -> JObject(SerializeStruct(value, field.of[1]))
      [] OTHER -> JNumber(value)
SerializeStruct(value, struct) ==
    [k \in {struct[i].name : i \in {j \in 1..Len(struct) :
                                      ~struct[j].optional \/ value[struct[j].name] # <<>>}} |->
        LET field == struct[CHOOSE i \in 1..Len(struct) : struct[i].name = k]
        IN  SerializeField(IF field.optional THEN value[k][1] ELSE value[k], field)]

\* the value given for the i-th field of a struct: the array's i-th
\* element, the object's value under the field's name, <<>> without one
Given(json, struct, i) ==
    IF json.t = "array" THEN <<json.v[i]>>
    ELSE IF struct[i].name \in DOMAIN json.v THEN <<json.v[struct[i].name]>>
    ELSE <<>>

\* derive(Deserialize): a value must have the kind of its field's type and
\* an integer must lie in the type's range (of the integers here only a u8
\* has an upper bound within reach); null is None for an Option; an enum's
\* unit variant is its renamed name, given as a string or as the only key
\* of an object whose value is the unit (null, or an object without keys);
\* a struct is read from an object, where a missing key is an error but for
\* an Option and unknown keys are ignored, or from an array of exactly its
\* fields in order.  The key of an object that stands for an enum is a
\* sequence of characters, like the value of a string that names a variant
VariantGiven(json) ==
    IF json.t = "string" THEN <<json.v>>
    ELSE IF json.t = "object" /\ Cardinality(DOMAIN json.v) = 1
    THEN <<CHOOSE k \in DOMAIN json.v : TRUE>>
    ELSE <<>>
UnitParses(json) == json.t = "null" \/ (json.t = "object" /\ DOMAIN json.v = {})
RECURSIVE StructParses(_, _)
FieldParses(json, field) ==
    IF field.optional /\ json.t = "null" THEN TRUE
    ELSE CASE field.ty = "String" -> json.t = "string"
           [] field.ty = "bool" -> json.t = "bool"
           [] field.ty = "u8" -> json.t = "number" /\ json.v >= 0 /\ json.v <= 255
           [] field.ty = "enum" ->
                  LET given == VariantGiven(json)
                  IN  /\ given # <<>>
                      /\ \E variant \in field.of[1] : ScreamingSnakeCase(variant) = given[1]
                      /\ json.t = "object" => UnitParses(json.v[given[1]])
           [] field.ty = "struct" -> StructParses(json, field.of[1])
           [] OTHER -> json.t = "number" /\ json.v >= 0
StructParses(json, struct) ==
    /\ json.t \in {"object", "array"}
    /\ json.t = "array" => Len(json.v) = Len(struct)
    /\ \A i \in 1..Len(struct) :
           LET given == Given(json, struct, i)
           IN  IF given = <<>> THEN struct[i].optional ELSE FieldParses(given[1], struct[i])

RECURSIVE DeserializeStruct(_, _)
DeserializeField(json, field) ==
    CASE field.ty = "enum" ->
             CHOOSE variant \in field.of[1] : ScreamingSnakeCase(variant) = VariantGiven(json)[1]
      [] field.ty = "struct" -> DeserializeStruct(json, field.of[1])
      [] OTHER -> json.v
DeserializeStruct(json, struct) ==
    [k \in {struct[i].name : i \in 1..Len(struct)} |->
        LET i == CHOOSE j \in 1..Len(struct) : struct[j].name = k
            given == Given(json, struct, i)
        IN  IF ~struct[i].optional THEN DeserializeField(given[1], struct[i])
            ELSE IF given = <<>> THEN <<>>
            ELSE IF given[1].t = "null" THEN <<>>
            ELSE <<DeserializeField(given[1], struct[i])>>]

\* serde_json::to_string of a message of a message enum (tag = "type",
\* rename_all = "snake_case"): the object of the variant's fields with the
\* tag beside them
to_string(msg, messages) ==
    LET m == messages[CHOOSE i \in 1..Len(messages) : messages[i].name = msg.variant]
        written == SerializeStruct([v |-> msg.v,
                                    id |-> IF m.id_optional THEN msg.id ELSE msg.id[1],
                                    payload |-> msg.payload], m.fields)
    IN  JObject([k \in DOMAIN written \cup {"type"} |->
                    IF k = "type" THEN JString(SnakeCase(msg.variant)) ELSE written[k]])

\* the tag of a message and the value its fields are read from: the key
\* type of an object and the object, or the first element of an array and
\* the array of the others; <<>> without a tag that is a string
Tagged(json) ==
    IF json.t = "object"
    THEN (IF "type" \in DOMAIN json.v
          THEN (IF json.v["type"].t = "string" THEN <<json.v["type"].v, json>> ELSE <<>>)
          ELSE <<>>)
    ELSE IF json.t = "array"
    THEN (IF json.v # <<>>
          THEN (IF json.v[1].t = "string" THEN <<json.v[1].v, JArray(Tail(json.v))>> ELSE <<>>)
          ELSE <<>>)
    ELSE <<>>

\* serde_json::from_str into a message enum: the variant is the one whose
\* renamed name is the tag, and its fields must parse
from_str(json, messages) ==
    LET tagged == Tagged(json)
        named == IF tagged = <<>> THEN {}
                 ELSE {i \in 1..Len(messages) : SnakeCase(messages[i].name) = tagged[1]}
    IN  IF \E i \in named : StructParses(tagged[2], messages[i].fields)
        THEN LET m == messages[CHOOSE i \in named : TRUE]
                 read == DeserializeStruct(tagged[2], m.fields)
             IN  [ok |-> TRUE,
                  msg |-> [variant |-> m.name, v |-> read.v,
                           id |-> IF m.id_optional THEN read.id ELSE <<read.id>>,
                           payload |-> read.payload]]
        ELSE [ok |-> FALSE]

\* what an Option<String> and an Option<bool> may hold
OptionStrings == {<<>>, <<"x">>}
OptionBools == {<<>>, <<FALSE>>}

\* the messages serialized: every variant of both enums, every Option as
\* None and as Some, every status and every error code
ClientMessages ==
    {[variant |-> <<"H", "e", "l", "l", "o">>, v |-> 1, id |-> id,
      payload |-> [miner_version |-> "1.0.0", threads |-> threads, site_token |-> o[1],
                   user_agent_hint |-> o[2], supports_binary |-> b, randomx_mode |-> o[1]]] :
        id \in OptionStrings, threads \in {0, 255},
        o \in OptionStrings \X OptionStrings, b \in OptionBools}
    \cup {[variant |-> <<"S", "u", "b", "m", "i", "t">>, v |-> 1, id |-> <<"r">>,
           payload |-> [job_id |-> "job", nonce |-> "12345678"]]}
    \cup {[variant |-> <<"S", "h", "a", "r", "e">>, v |-> 1, id |-> id,
           payload |-> [job_id |-> "job", nonce |-> 7, result_hash_hex |-> "ab"]] :
             id \in OptionStrings}
    \cup {[variant |-> <<"P", "i", "n", "g">>, v |-> v, id |-> <<"r">>, payload |-> NoFields] :
             v \in {0, 1, 255}}
ServerMessages ==
    {[variant |-> <<"S", "t", "a", "t", "s">>, v |-> 1, id |-> id,
      payload |-> [session_id |-> "s", submits_per_minute |-> 120,
                   messages_per_second |-> 20,
                   policy |-> [job_ttl_ms |-> 1, max_submits_per_min |-> 2,
                               max_shares_per_min |-> 3],
                   server_time_ms |-> 4, tip_height |-> 5]] : id \in OptionStrings}
    \cup {[variant |-> <<"J", "o", "b">>, v |-> 1, id |-> id,
           payload |-> [job_id |-> "job", blob_hex |-> "00", reserved_offset |-> 60,
                        reserved_value_hex |-> "01", target_hex |-> "ff", height |-> 7,
                        seed_hash |-> "ab", expires_at_ms |-> 9, share_target_hex |-> share,
                        algo |-> "rx/0"]] : id \in OptionStrings, share \in OptionStrings}
    \cup {[variant |-> <<"S", "u", "b", "m", "i", "t", "R", "e", "s", "u", "l", "t">>, v |-> 1, id |-> <<"r">>,
           payload |-> [status |-> status, message |-> message]] :
             status \in SubmitStatus, message \in OptionStrings}
    \cup {[variant |-> <<"E", "r", "r", "o", "r">>, v |-> 1, id |-> id,
           payload |-> [code |-> code, message |-> "m"]] :
             id \in OptionStrings, code \in ErrorCode}
    \cup {[variant |-> <<"P", "o", "n", "g">>, v |-> 1, id |-> <<"r">>, payload |-> NoFields]}

--------------------------------------------------------------------------
(* The functions of jobs.rs and validator.rs, each applied once to an      *)
(* input drawn from a set.                                                 *)

\* the reserved offsets of the jobs validated: the region overlaps the
\* nonce, ends with the blob, or runs over the blob's end
FnOffsets == {NonceOffset + 1, min_blob_len - ReserveSize, min_blob_len - 1}

\* the jobs validated: create_job for the session UuidA from a template of
\* min_blob_len zero bytes
FnJobs ==
    {BuildJob(from_rpc([DaemonTemplate(1, EpochSeed) EXCEPT !.reserved_offset = o], 1, ReserveSize, 0),
              UuidA, 0, 0) : o \in FnOffsets}

\* a hex string with its letters in upper case
UpperHex(s) ==
    [i \in 1..Len(s) |->
        CASE s[i] = "a" -> "A" [] s[i] = "b" -> "B" [] s[i] = "c" -> "C"
          [] s[i] = "d" -> "D" [] s[i] = "e" -> "E" [] s[i] = "f" -> "F"
          [] OTHER -> s[i]]

\* the blobs validated against a job: the job's blob; that blob with one
\* byte changed, at every position; with a byte less or more; and as text
\* of odd length, with a letter that is no hex digit, in upper case
FnBlobs(job) ==
    LET blob == UnwrapOrDefault(HexDecode(job.blob_hex))
    IN  {job.blob_hex}
        \cup {HexEncode([blob EXCEPT ![p] = (@ + 1) % 256]) : p \in 1..Len(blob)}
        \cup {HexEncode(SubSeq(blob, 1, Len(blob) - 1)), HexEncode(blob \o <<0>>)}
        \cup {SubSeq(job.blob_hex, 1, Len(job.blob_hex) - 1),
              [job.blob_hex EXCEPT ![1] = "z"],
              UpperHex(HexEncode([blob EXCEPT ![1] = 171]))}

\* the difficulties converted: those without a division, small ones, those
\* around the powers of 256 and neighbours near 2^23
Difficulties ==
    {0, 1, 2, 3, 4, 5, 7, 255, 256, 257, 65535, 65536, 65537, 1000000, 8388606, 8388607}

\* the bytes varied in the hashes and targets compared
FnBytes == {0, 128, 255}

\* the hashes and targets compared: 32 bytes that vary in the least
\* significant byte, a middle one and the most significant
FnArrays ==
    {[i \in 1..32 |-> IF i = 1 THEN a ELSE IF i = 16 THEN b ELSE IF i = 32 THEN c ELSE 0] :
        a \in FnBytes, b \in FnBytes, c \in FnBytes}

\* a hello frame with the payload given, and a frame of the type and
\* payload given with the id "r"
HelloFrame(payload) ==
    JObject([k \in {"type", "v", "payload"} |->
                IF k = "type" THEN JString(<<"h", "e", "l", "l", "o">>)
                ELSE IF k = "v" THEN JNumber(1) ELSE payload])
FrameOf(type, payload) ==
    JObject([k \in {"type", "v", "id", "payload"} |->
                IF k = "type" THEN JString(type)
                ELSE IF k = "v" THEN JNumber(1)
                ELSE IF k = "id" THEN JString("r") ELSE payload])

\* the payload of a hello with the two values given
HelloOf(miner_version, threads) ==
    JObject([k \in {"miner_version", "threads"} |->
                IF k = "miner_version" THEN miner_version ELSE threads])

\* the payload of a job with the reserved offset given
JobOf(reserved_offset) ==
    JObject([k \in {"job_id", "blob_hex", "reserved_offset", "reserved_value_hex",
                    "target_hex", "height", "seed_hash", "expires_at_ms", "algo"} |->
                IF k = "reserved_offset" THEN reserved_offset
                ELSE IF k \in {"height", "expires_at_ms"} THEN JNumber(7)
                ELSE JString("00")])

\* the frames parsed: a hello with its required fields; with threads out
\* of a u8's range, as a string, negative; with a number as miner_version;
\* with a string as supports_binary; with an unknown key; without
\* threads; with its payload as the array of the six fields, of five, and
\* with null for the Options; a submit whose nonce is a number; a share
\* whose nonce is a string, and is a number; a ping without id, and with a
\* payload that is no object; a frame without type, of an unknown type,
\* with v out of range; a submit as the array of its tag and fields; a job
\* with a negative reserved offset, and with 60; a submit_result whose
\* status is the object of the variant's name and null, of the name and an
\* object without keys, of the name and a number, of two names, of a name
\* that is no variant's, and is an object without keys; an error whose code
\* is the object of the variant's name and null
ResultOf(status) == FrameOf(<<"s", "u", "b", "m", "i", "t", "_", "r", "e", "s", "u", "l", "t">>, JObject([k \in {"status"} |-> status]))
ErrorOf(code) == FrameOf(<<"e", "r", "r", "o", "r">>, JObject([k \in {"code", "message"} |-> IF k = "code" THEN code ELSE JString("m")]))
Named(names, value) == JObject([k \in names |-> value])
Frames ==
    <<[messages |-> "ClientMessage",
       json |-> HelloFrame(HelloOf(JString("1.0.0"), JNumber(4)))],
      [messages |-> "ClientMessage",
       json |-> HelloFrame(HelloOf(JString("1.0.0"), JNumber(256)))],
      [messages |-> "ClientMessage",
       json |-> HelloFrame(HelloOf(JString("1.0.0"), JString("4")))],
      [messages |-> "ClientMessage",
       json |-> HelloFrame(HelloOf(JString("1.0.0"), JNumber(0 - 1)))],
      [messages |-> "ClientMessage",
       json |-> HelloFrame(HelloOf(JNumber(1), JNumber(4)))],
      [messages |-> "ClientMessage",
       json |-> HelloFrame(JObject([k \in {"miner_version", "threads", "supports_binary"} |->
                    IF k = "threads" THEN JNumber(4)
                    ELSE IF k = "miner_version" THEN JString("1.0.0") ELSE JString("yes")]))],
      [messages |-> "ClientMessage",
       json |-> HelloFrame(JObject([k \in {"miner_version", "threads", "client_version"} |->
                    IF k = "threads" THEN JNumber(4) ELSE JString("1.0.0")]))],
      [messages |-> "ClientMessage",
       json |-> HelloFrame(JObject([k \in {"miner_version"} |-> JString("1.0.0")]))],
      [messages |-> "ClientMessage",
       json |-> HelloFrame(JArray(<<JString("1.0.0"), JNumber(4), JString("t"), JString("u"),
                                    JBool(TRUE), JString("fast")>>))],
      [messages |-> "ClientMessage",
       json |-> HelloFrame(JArray(<<JString("1.0.0"), JNumber(4), JString("t"), JString("u"),
                                    JBool(TRUE)>>))],
      [messages |-> "ClientMessage",
       json |-> HelloFrame(JArray(<<JString("1.0.0"), JNumber(4), JNull, JNull, JNull,
                                    JNull>>))],
      [messages |-> "ClientMessage",
       json |-> FrameOf(<<"s", "u", "b", "m", "i", "t">>,
                        JObject([k \in {"job_id", "nonce"} |->
                                    IF k = "nonce" THEN JNumber(5) ELSE JString("job")]))],
      [messages |-> "ClientMessage",
       json |-> FrameOf(<<"s", "h", "a", "r", "e">>,
                        JObject([k \in {"job_id", "nonce", "result_hash_hex"} |->
                                    IF k = "nonce" THEN JString("7") ELSE JString("job")]))],
      [messages |-> "ClientMessage",
       json |-> FrameOf(<<"s", "h", "a", "r", "e">>,
                        JObject([k \in {"job_id", "nonce", "result_hash_hex"} |->
                                    IF k = "nonce" THEN JNumber(7) ELSE JString("job")]))],
      [messages |-> "ClientMessage",
       json |-> JObject([k \in {"type", "v", "payload"} |->
                    IF k = "type" THEN JString(<<"p", "i", "n", "g">>)
                    ELSE IF k = "v" THEN JNumber(1) ELSE JObject(NoFields)])],
      [messages |-> "ClientMessage",
       json |-> FrameOf(<<"p", "i", "n", "g">>, JString("now"))],
      [messages |-> "ClientMessage",
       json |-> JObject([k \in {"v", "id", "payload"} |->
                    IF k = "v" THEN JNumber(1)
                    ELSE IF k = "id" THEN JString("r") ELSE JObject(NoFields)])],
      [messages |-> "ClientMessage",
       json |-> FrameOf(<<"p", "o", "n", "g">>, JObject(NoFields))],
      [messages |-> "ClientMessage",
       json |-> JObject([k \in {"type", "v", "id", "payload"} |->
                    IF k = "type" THEN JString(<<"p", "i", "n", "g">>)
                    ELSE IF k = "v" THEN JNumber(256)
                    ELSE IF k = "id" THEN JString("r") ELSE JObject(NoFields)])],
      [messages |-> "ClientMessage",
       json |-> JArray(<<JString(<<"s", "u", "b", "m", "i", "t">>), JNumber(1), JString("r"),
                         JArray(<<JString("job"), JString("12345678")>>)>>)],
      [messages |-> "ServerMessage",
       json |-> FrameOf(<<"j", "o", "b">>, JobOf(JNumber(0 - 1)))],
      [messages |-> "ServerMessage",
       json |-> FrameOf(<<"j", "o", "b">>, JobOf(JNumber(60)))],
      [messages |-> "ServerMessage",
       json |-> ResultOf(Named({<<"A", "C", "C", "E", "P", "T", "E", "D">>}, JNull))],
      [messages |-> "ServerMessage",
       json |-> ResultOf(Named({<<"S", "T", "A", "L", "E">>}, JObject(NoFields)))],
      [messages |-> "ServerMessage",
       json |-> ResultOf(Named({<<"A", "C", "C", "E", "P", "T", "E", "D">>}, JNumber(1)))],
      [messages |-> "ServerMessage",
       json |-> ResultOf(Named({<<"A", "C", "C", "E", "P", "T", "E", "D">>,
                                <<"R", "E", "J", "E", "C", "T", "E", "D">>}, JNull))],
      [messages |-> "ServerMessage",
       json |-> ResultOf(Named({<<"A", "c", "c", "e", "p", "t", "e", "d">>}, JNull))],
      [messages |-> "ServerMessage",
       json |-> ResultOf(JObject(NoFields))],
      [messages |-> "ServerMessage",
       json |-> ErrorOf(Named({<<"B", "A", "D", "_", "P", "O", "W">>}, JNull))]>>

\* the calls made
FnInputs ==
    {[kind |-> "blob", blob_hex |-> x[2], job |-> x[1]] :
        x \in UNION {{<<j, b>> : b \in FnBlobs(j)} : j \in FnJobs}}
    \cup {[kind |-> "difficulty", d1 |-> a, d2 |-> b] : a \in Difficulties, b \in Difficulties}
    \cup {[kind |-> "hash", hash |-> h, target |-> t] : h \in FnArrays, t \in FnArrays}
    \cup {[kind |-> "message", messages |-> "ClientMessage", msg |-> m] : m \in ClientMessages}
    \cup {[kind |-> "message", messages |-> "ServerMessage", msg |-> m] : m \in ServerMessages}
    \cup {[kind |-> "frame", n |-> n] : n \in 1..Len(Frames)}

FnInit ==
    /\ fn_in \in FnInputs
    /\ fn_out = <<>>

\* validate_blob on a text and a job
ApplyValidate ==
    /\ fn_out = <<>>
    /\ fn_in.kind = "blob"
    /\ fn_out' = <<[result |-> validate_blob(fn_in.blob_hex, fn_in.job)]>>
    /\ UNCHANGED <<fn_in, notFn>>

\* difficulty_to_target on two difficulties
ApplyTarget ==
    /\ fn_out = <<>>
    /\ fn_in.kind = "difficulty"
    /\ fn_out' = <<[t1 |-> difficulty_to_target(fn_in.d1),
                    t2 |-> difficulty_to_target(fn_in.d2)]>>
    /\ UNCHANGED <<fn_in, notFn>>

\* check_meets_target on a hash and a target
ApplyMeets ==
    /\ fn_out = <<>>
    /\ fn_in.kind = "hash"
    /\ fn_out' = <<check_meets_target(fn_in.hash, fn_in.target)>>
    /\ UNCHANGED <<fn_in, notFn>>

\* a message serialized and what was written parsed
ApplyCodec ==
    /\ fn_out = <<>>
    /\ fn_in.kind = "message"
    /\ LET json == to_string(fn_in.msg, MessagesOf(fn_in.messages))
       IN  fn_out' = <<[json |-> json,
                        parsed |-> from_str(json, MessagesOf(fn_in.messages))]>>
    /\ UNCHANGED <<fn_in, notFn>>

\* a frame parsed
ApplyParse ==
    /\ fn_out = <<>>
    /\ fn_in.kind = "frame"
    /\ fn_out' = <<from_str(Frames[fn_in.n].json, MessagesOf(Frames[fn_in.n].messages))>>
    /\ UNCHANGED <<fn_in, notFn>>

FnNext ==
    \/ ApplyValidate
    \/ ApplyTarget
    \/ ApplyMeets
    \/ ApplyCodec
    \/ ApplyParse

\* the function group while another component's specification runs
FnParked ==
    /\ fn_in = <<>>
    /\ fn_out = <<>>

--------------------------------------------------------------------------
(* Structural validation on the way of a Submit: connection 1 after its    *)
(* Hello, its frames given as the JSON they hold and parsed as              *)
(* handle_socket parses them, beside validate_blob applied to texts.       *)

\* the reserved offsets of the first template: the region lies on the last
\* three nonce bytes, or behind the nonce as in DaemonTemplate
StructureOffsets == {NonceOffset + 1, DaemonTemplate(1, EpochSeed).reserved_offset}

\* the nonces sent: the bytes 39 to 42 of the job's blob when its reserved
\* region begins at NonceOffset + 1 (a zero byte and the first three bytes
\* of UuidA, 0x30 each); those with one of the four bytes changed; and a
\* text that is not hex
StructureNonces ==
    {<<"0", "0", "3", "0", "3", "0", "3", "0">>, <<"0", "0", "3", "0", "3", "0", "3", "1">>,
     <<"0", "0", "3", "0", "3", "1", "3", "0">>, <<"0", "0", "3", "1", "3", "0", "3", "0">>,
     <<"0", "1", "3", "0", "3", "0", "3", "0">>, <<"z", "z">>}

\* a submit frame with the id "r" whose payload holds job_id and, under
\* the key given, one more string
SubmitText(job_id, key, value) ==
    FrameOf(<<"s", "u", "b", "m", "i", "t">>,
            JObject([k \in {"job_id", key} |-> JString(IF k = "job_id" THEN job_id ELSE value)]))

\* the job's blob with one byte of its reserved window changed, for every
\* byte of the window inside the blob
WindowChanged(job) ==
    LET blob == UnwrapOrDefault(HexDecode(job.blob_hex))
    IN  {HexEncode([blob EXCEPT ![p] = (@ + 1) % 256]) :
            p \in {q \in 1..Len(blob) : /\ q - 1 >= job.reserved_offset
                                        /\ q - 1 < job.reserved_offset + Len(job.reserved_value)}}

\* the submit frames a client sends for the jobs of the registry: with a
\* nonce, as SubmitPayload has it, and with blob_hex in its place, holding
\* the job's blob or that blob with a byte of the reserved window changed
SubmitTexts ==
    UNION {{SubmitText(id, "nonce", n) : n \in StructureNonces}
           \cup {SubmitText(id, "blob_hex", b) : b \in WindowChanged(jobs[id]) \cup {jobs[id].blob_hex}} :
           id \in DOMAIN jobs}

\* handle_socket, lines 151-172 with handle_message, lines 233-299: a text
\* frame, parsed by serde_json::from_str::<ClientMessage>.  A text that is
\* no ClientMessage is answered BAD_FORMAT, the result of the send dropped;
\* a Submit goes through the checks up to init_vm, which end in a reply or
\* leave the task before compute_hash
RecvText(c, json, built) ==
    /\ pc[c] = "loop"
    /\ frames_left > 0
    /\ frames_left' = frames_left - 1
    /\ LET sid == SessionIdOf(c)
           lim == check_message_limit(sessions, sid, now)
           parsed == from_str(json, ClientMessage)
       IN  /\ lim.ok
           /\ IF ~parsed.ok
              THEN /\ ArmWrites(c, lim.sessions, Inc(metrics, "messages_received"))
                   /\ loc' = SendIgnoringResult(
                                 [loc EXCEPT ![c].req = <<[type |-> "text", json |-> json]>>], c,
                                 ErrorMessage("BAD_FORMAT", "Invalid message format"))
                   /\ UNCHANGED validator
              ELSE /\ parsed.msg.variant = <<"S", "u", "b", "m", "i", "t">>
                   /\ LET frame == [type |-> "submit", id |-> parsed.msg.id[1],
                                    job_id |-> parsed.msg.payload.job_id,
                                    nonce |-> parsed.msg.payload.nonce]
                          r == SubmitChecks(lim.sessions, Inc(metrics, "messages_received"),
                                            validator, sid, frame, built)
                      IN  /\ validator' = r.validator
                          /\ IF r.hash
                             THEN /\ sessions' = r.sessions
                                  /\ metrics' = r.metrics
                                  /\ pc' = [pc EXCEPT ![c] = "hashing"]
                                  /\ loc' = [loc EXCEPT ![c].req = <<frame>>, ![c].job = r.job,
                                                        ![c].blob = r.blob]
                                  /\ UNCHANGED <<sent, ip_counts>>
                             ELSE /\ ArmWrites(c, r.sessions, r.metrics)
                                  /\ loc' = SendOrBreak([loc EXCEPT ![c].req = <<frame>>], c, r.reply)
    /\ UNCHANGED <<now, jobs, counter, template_slot, template_counter, daemon_calls,
                   config, notSrv>>

\* validate_blob is applied to a text, or connection 1 has said Hello
\* under a first template whose reserved offset is drawn
StructureInit ==
    \/ /\ fn_in \in {i \in FnInputs : i.kind = "blob"}
       /\ fn_out = <<>>
       /\ SrvParked
    \/ /\ FnParked
       /\ \E o \in StructureOffsets :
              ServerAt(AfterHelloOf(FALSE, SubmitConfig,
                                    [DaemonTemplate(1, EpochSeed) EXCEPT !.reserved_offset = o]),
                       SubmitConfig)

StructureNext ==
    \/ fn_in # <<>> /\ ApplyValidate
    \/ pc # <<>> /\ \E json \in SubmitTexts, built \in BOOLEAN : RecvText(1, json, built)
    \/ pc # <<>> /\ \E hashed \in HashOutcomes : HashSubmit(1, hashed)
    \/ pc # <<>> /\ \E ok \in BOOLEAN : DaemonReply(1, ok)
    \/ pc # <<>> /\ SendResolves(1)

--------------------------------------------------------------------------
(* template.rs: TemplateManager::run.  A step is the part of run() between *)
(* two awaits: the initial refresh, a tick with its get_info, and the      *)
(* get_block_template that follows a detected height change.  Between     *)
(* them the daemon's height may grow and the daemon may stop or start       *)
(* answering.                                                              *)

\* the daemon's heights run from 1 to TMMaxHeight
TMMaxHeight == 3

\* what get_block_template returns at a height
TMDaemonTemplate(height) == [DaemonTemplate(1, EpochSeed) EXCEPT !.height = height]

\* run(), line 95: info.height != last_height
HeightChanged(height, last_height) == height # last_height

\* the manager at the start of run(): counter 0, nothing on the channel
TMInit ==
    /\ tm_pc = "init"
    /\ tm_template_counter = 0
    /\ tm_last_height = 0
    /\ tm_slot = [value |-> <<>>, version |-> 0]
    /\ tm_templates_received = 0
    /\ tm_height = 1
    /\ tm_up \in BOOLEAN
    /\ tm_failed = 0

\* run(), lines 82-86: the initial refresh_template
TMInitialFetch ==
    /\ tm_pc = "init"
    /\ tm_pc' = "tick"
    /\ LET fetched == [ok |-> tm_up, template |-> TMDaemonTemplate(tm_height)]
           r == refresh_template(tm_template_counter, fetched, ReserveSize, 0)
       IN  /\ tm_template_counter' = r.template_counter
           /\ tm_slot' = IF r.send = <<>> THEN tm_slot
                          ELSE [value |-> r.send, version |-> tm_slot.version + 1]
           /\ tm_templates_received' = IF r.ok THEN tm_templates_received + 1
                                         ELSE tm_templates_received
    /\ UNCHANGED <<tm_last_height, tm_height, tm_up, tm_failed, notTM>>

\* run(), lines 91-97 and 103-105: a tick and its get_info; on an answer
\* with a changed height last_height is set and the refresh begins
TMGetInfo ==
    /\ tm_pc = "tick"
    /\ IF tm_up /\ HeightChanged(tm_height, tm_last_height)
       THEN /\ tm_last_height' = tm_height
            /\ tm_pc' = "refresh"
       ELSE UNCHANGED <<tm_last_height, tm_pc>>
    /\ UNCHANGED <<tm_template_counter, tm_slot, tm_templates_received, tm_height, tm_up,
                   tm_failed, notTM>>

\* run(), lines 98-100: the refresh_template after a detected change
TMRefresh ==
    /\ tm_pc = "refresh"
    /\ tm_pc' = "tick"
    /\ LET fetched == [ok |-> tm_up, template |-> TMDaemonTemplate(tm_height)]
           r == refresh_template(tm_template_counter, fetched, ReserveSize, 0)
       IN  /\ tm_template_counter' = r.template_counter
           /\ tm_slot' = IF r.send = <<>> THEN tm_slot
                          ELSE [value |-> r.send, version |-> tm_slot.version + 1]
           /\ tm_templates_received' = IF r.ok THEN tm_templates_received + 1
                                         ELSE tm_templates_received
           /\ tm_failed' = IF r.ok THEN 0 ELSE tm_last_height
    /\ UNCHANGED <<tm_last_height, tm_height, tm_up, notTM>>

\* the chain grows by a block
TMDaemonHeight ==
    /\ tm_height < TMMaxHeight
    /\ tm_height' = tm_height + 1
    /\ UNCHANGED <<tm_pc, tm_template_counter, tm_last_height, tm_slot,
                   tm_templates_received, tm_up, tm_failed, notTM>>

\* the daemon stops or starts answering
TMDaemonFlip ==
    /\ tm_up' = ~tm_up
    /\ UNCHANGED <<tm_pc, tm_template_counter, tm_last_height, tm_slot,
                   tm_templates_received, tm_height, tm_failed, notTM>>

\* the steps of the manager's task
TMTask ==
    \/ TMInitialFetch
    \/ TMGetInfo
    \/ TMRefresh

TMNext ==
    \/ TMInitialFetch
    \/ TMGetInfo
    \/ TMRefresh
    \/ TMDaemonHeight
    \/ TMDaemonFlip

\* the template group while another component's specification runs
TMParked ==
    /\ tm_pc = "init"
    /\ tm_template_counter = 0
    /\ tm_last_height = 0
    /\ tm_slot = <<>>
    /\ tm_templates_received = 0
    /\ tm_height = 0
    /\ tm_up = FALSE
    /\ tm_failed = 0

--------------------------------------------------------------------------
(* validator.rs: the shared SubmissionValidator under parallel submissions *)

\* the tasks that handle a Submit at the same time
VTasks == {1, 2}

\* the seed hashes of the jobs submitted: two epochs, one that is no hex,
\* and the empty one
VSeeds == {<<"a", "b">>, <<"c", "d">>, <<"z", "z">>, <<>>}

VInit ==
    /\ v_vm = SubmissionValidatorNew.vm
    /\ v_current = SubmissionValidatorNew.current_seed_hash
    /\ v_pc = [t \in VTasks |-> "idle"]
    /\ v_loc = [t \in VTasks |-> [seed |-> <<>>, ok |-> TRUE, key |-> <<>>]]

\* handle_message, lines 291-299: task t calls init_vm(&job.seed_hash);
\* on Err it answers REJECTED and is done with the Submit
VInitVm(t, seed_hash, cache_ok, vm_ok) ==
    /\ v_pc[t] = "idle"
    /\ LET r == InitVm([vm |-> v_vm, current_seed_hash |-> v_current],
                       seed_hash, cache_ok, vm_ok)
       IN  /\ v_vm' = r.validator.vm
           /\ v_current' = r.validator.current_seed_hash
           /\ v_pc' = [v_pc EXCEPT ![t] = IF r.ok THEN "primed" ELSE "idle"]
           /\ v_loc' = [v_loc EXCEPT ![t] = [seed |-> seed_hash, ok |-> r.ok, key |-> <<>>]]
    /\ UNCHANGED notV

\* handle_message, lines 301-311: task t calls compute_hash(&blob), raw
\* being what calculate_hash gives on the VM the call reads; on Err (no VM,
\* the error of calculate_hash, a hash of another length) it answers
\* REJECTED, and on Ok the hash is the one of the VM read
VComputeHash(t, raw) ==
    /\ v_pc[t] = "primed"
    /\ LET val == [vm |-> v_vm, current_seed_hash |-> v_current]
           r == compute_hash(val, raw)
       IN  v_loc' = [v_loc EXCEPT ![t].ok = r.ok,
                                  ![t].key = IF r.ok THEN ComputeHash(val).key ELSE <<>>]
    /\ v_pc' = [v_pc EXCEPT ![t] = "idle"]
    /\ UNCHANGED <<v_vm, v_current, notV>>

VNext ==
    \/ \E t \in VTasks, seed_hash \in VSeeds, cache_ok \in BOOLEAN, vm_ok \in BOOLEAN :
          VInitVm(t, seed_hash, cache_ok, vm_ok)
    \/ \E t \in VTasks, raw \in HashOutcomes : VComputeHash(t, raw)

\* the validator group while another component's specification runs
VParked ==
    /\ v_vm = <<>>
    /\ v_current = <<>>
    /\ v_pc = <<>>
    /\ v_loc = <<>>

--------------------------------------------------------------------------
(* Specifications *)

\* one RateLimiter under check() calls and the passing of time
InitRL == RLInit /\ JMParked /\ SMParked /\ SrvParked /\ FnParked /\ TMParked /\ CLParked /\ VParked
SpecRL == InitRL /\ [][RLNext]_vars

\* one JobManager under concurrent create_job calls, template rotation and time
InitJobs == JMInit /\ RLParked /\ SMParked /\ SrvParked /\ FnParked /\ TMParked /\ CLParked /\ VParked
SpecJobs == InitJobs /\ [][JMNext]_vars

\* one SessionManager under concurrent create_session and remove_session calls
InitSess == SMInit /\ RLParked /\ JMParked /\ SrvParked /\ FnParked /\ TMParked /\ CLParked /\ VParked
SpecSess == InitSess /\ [][SMNext]_vars

\* the connection handler over the shared AppState, the other groups parked
Init == SrvInit /\ RLParked /\ JMParked /\ SMParked /\ FnParked /\ TMParked /\ CLParked /\ VParked
Spec == Init /\ [][Next]_vars

\* the change to loc of a step of TemplateChanged(c): the task marks the
\* published version as seen. No other step sets loc[c].seen to an unseen
\* version, so that the steps of LiveNext that satisfy ChangedArm(c) are the
\* steps of TemplateChanged(c), and ChangedArm(c) is enabled when
\* TemplateChanged(c) is.
ChangedArm(c) ==
    /\ pc[c] = "loop"
    /\ template_slot.version # loc[c].seen
    /\ loc' = [loc EXCEPT ![c].seen = template_slot.version]

\* connection c's task goes on in this step from a place where it waits for
\* no frame and no template: the rest of the changed() arm (lines 122-141),
\* the completion of a send, compute_hash after init_vm, the return of
\* submit_block, and the way out
\* (lines 187-188)
TaskRuns(c) ==
    /\ pc[c] \in {"changed", "minting", "sending", "hashing", "submitting", "leaving",
                  "removing", "decrementing", "dropping"}
    /\ \E place \in {"loop", "changed", "minting", "sending", "hashing", "submitting",
                      "leaving", "removing", "decrementing", "dropping", "closed",
                      "refused"} :
          /\ place # pc[c]
          /\ pc' = [pc EXCEPT ![c] = place]

\* one connection under fair scheduling: a task whose template_rx.changed()
\* is ready takes that arm of its select and runs it (lines 122-141 hold no
\* await before the send), a send on an open socket completes, the
\* daemon answers a submit_block (or the RPC times out), and a task that
\* has left its loop runs to its return
SpecLive ==
    /\ Init
    /\ [][LiveNext]_vars
    /\ WF_loc(ChangedArm(1))
    /\ WF_pc(TaskRuns(1))

\* the submissions of a session that has said Hello
InitStructure == StructureInit /\ RLParked /\ JMParked /\ SMParked /\ TMParked /\ CLParked /\ VParked
SpecStructure == InitStructure /\ [][StructureNext]_vars

InitSubmit == SubmitInit /\ RLParked /\ JMParked /\ SMParked /\ FnParked /\ TMParked /\ CLParked /\ VParked
SpecSubmit == InitSubmit /\ [][SubmitNext]_vars

\* the life of connections
InitConn == ConnInit /\ RLParked /\ JMParked /\ SMParked /\ FnParked /\ TMParked /\ CLParked /\ VParked
SpecConn == InitConn /\ [][ConnNext]_vars

\* the life of connections under idle eviction
SpecIdle == InitConn /\ [][IdleNext]_vars

\* the life of connections under idle eviction when sockets break
SpecEvict == InitConn /\ [][EvictNext]_vars

\* two connections that submit beside each other, the first template's seed
\* hash drawn
ShareInit ==
    \E flooded \in BOOLEAN, seed_hash \in DaemonSeeds(1) :
        ServerAfterHello(flooded, ConnConfig, seed_hash)
InitShare == ShareInit /\ RLParked /\ JMParked /\ SMParked /\ FnParked /\ TMParked /\ CLParked /\ VParked
SpecShare == InitShare /\ [][ShareNext]_vars

\* tasks that prime the verifier and hash in parallel
InitValidator == VInit /\ RLParked /\ JMParked /\ SMParked /\ SrvParked /\ FnParked /\ TMParked /\ CLParked
SpecValidator == InitValidator /\ [][VNext]_vars

\* a task calling cleanup_idle beside the connections
InitCleanup == ConnInit /\ CLInit /\ RLParked /\ JMParked /\ SMParked /\ FnParked /\ TMParked /\ VParked
SpecCleanup == InitCleanup /\ [][CleanupNext]_vars

\* one call of a function of jobs.rs, validator.rs or protocol.rs on a drawn
\* input
InitFn == FnInit /\ RLParked /\ JMParked /\ SMParked /\ SrvParked /\ TMParked /\ CLParked /\ VParked
SpecFn == InitFn /\ [][FnNext]_vars

\* the template manager's task and the daemon; with the task scheduled
\* whenever it can take a step (the ticker keeps firing)
InitTemplate == TMInit /\ RLParked /\ JMParked /\ SMParked /\ SrvParked /\ FnParked /\ CLParked /\ VParked
SpecTemplate == InitTemplate /\ [][TMNext]_vars
SpecTemplateFair == InitTemplate /\ [][TMNext]_vars /\ WF_vars(TMTask)

--------------------------------------------------------------------------
(* Claims about the rate limiter *)

\* the number of admitted checks whose timestamp lies in lo..hi
AdmittedIn(lo, hi) ==
    Cardinality({i \in 1..Len(rl_admitted) : rl_admitted[i] >= lo /\ rl_admitted[i] <= hi})

\* C5: with capacity N and window W, at most N admitted check() calls have
\* their timestamps in any interval of length W, and a check() is denied only
\* when N admissions lie within W before it (so once W has passed since the
\* admissions a fresh N checks are admitted).
C5_RateLimitWindow ==
    /\ \A a \in 0..RLMaxTime : AdmittedIn(a, a + rl_window) <= rl_max_count
    /\ (rl_last.called /\ ~rl_last.ok) =>
           AdmittedIn(rl_last.t - rl_window, rl_last.t) = rl_max_count

\* C5 witness: N >= 1 admissions fill a window, the next check inside it was
\* denied, and a later check past the window was admitted again.
C5_Witness ==
    /\ rl_max_count = 2
    /\ Len(rl_admitted) = 2 * rl_max_count
    /\ rl_admitted[rl_max_count + 1] > rl_admitted[rl_max_count] + rl_window
    /\ rl_last.called /\ ~rl_last.ok

\* C6 as stated: at every moment remaining() plus the admitted events still
\* inside the window (admission time >= now - W) equals N.
C6_RemainingPlusInWindow ==
    RateLimiterRemaining(TheRL) + AdmittedIn(rl_now - rl_window, rl_now) = rl_max_count

--------------------------------------------------------------------------
(* Claims about the job registry *)

\* the number a string of lowercase hex digits denotes, -1 if it is none
RECURSIVE LowerHexNumber(_)
LowerHexNumber(s) ==
    IF s = <<>> THEN 0
    ELSE LET d == s[Len(s)]
             rest == LowerHexNumber(SubSeq(s, 1, Len(s) - 1))
         IN  IF rest < 0 \/ \A k \in 1..16 : HexChars[k] # d THEN -1
             ELSE 16 * rest + HexVal(d)

\* the seq values taken by calls that are still inside create_job
SeqsInFlight == {jm_loc[t].seq : t \in {u \in JTasks : jm_pc[u] # "idle"}}

\* C2: any two create_job calls, concurrent or not, return different job_ids;
\* each job_id is the 16-digit lowercase hex of the call's counter value, and
\* the values taken are exactly 0 .. counter-1, one per call.
C2_JobIdsUnique ==
    /\ \A i, j \in 1..Len(jm_log) : i # j => jm_log[i].job_id # jm_log[j].job_id
    /\ \A i \in 1..Len(jm_log) :
          /\ Len(jm_log[i].job_id) = 16
          /\ LowerHexNumber(jm_log[i].job_id) = jm_log[i].seq
    /\ {jm_log[i].seq : i \in 1..Len(jm_log)} \cup SeqsInFlight = 0..(jm_counter - 1)
    /\ Len(jm_log) + Cardinality({t \in JTasks : jm_pc[t] # "idle"}) = jm_counter

\* C2 witness: two calls overlapped and returned in the opposite order of
\* their counter values.
C2_Witness ==
    /\ Len(jm_log) >= 2
    /\ jm_log[1].seq = 1
    /\ jm_log[2].seq = 0

\* C3 as stated: two jobs whose (session_id, seq) pairs differ carry
\* different reserved values, for every configured reserve_size.
C3_ReservedValuesDiffer ==
    \A i, j \in 1..Len(jm_log) :
        (i # j /\ <<jm_log[i].session, jm_log[i].seq>> # <<jm_log[j].session, jm_log[j].seq>>)
            => jm_jobs[jm_log[i].job_id].reserved_value # jm_jobs[jm_log[j].job_id].reserved_value

\* C4 as stated: for every created job, the decoded blob_hex sliced at
\* [reserved_offset, reserved_offset + reserve_size) is the reserved value,
\* whatever template the daemon supplied.
C4_BlobCarriesReserved ==
    \A i \in 1..Len(jm_log) :
        LET job == jm_jobs[jm_log[i].job_id]
            blob == HexDecode(job.blob_hex)
            n == Len(job.reserved_value)
        IN  /\ blob.ok
            /\ job.reserved_offset + n <= Len(blob.bytes)
            /\ SubSeq(blob.bytes, job.reserved_offset + 1, job.reserved_offset + n)
                   = job.reserved_value

\* C9: is_stale is false when the job's template is the current one, whatever
\* the job's age, and otherwise true exactly when the age is strictly greater
\* than stale_grace_ms.
C9_IsStale ==
    \A id \in DOMAIN jm_jobs : \A cur \in {0} \cup JTemplateIds :
        LET job == jm_jobs[id]
            age == jm_now - job.created_at
            stale == is_stale(job, cur, jm_now, jm_stale_grace)
        IN  /\ job.template_id = cur => ~stale
            /\ job.template_id # cur => (stale <=> age > jm_stale_grace)

\* C9 witness: the registry holds a job of an older template whose age equals
\* the grace exactly, and a job of the current template older than the grace.
C9_Witness ==
    /\ \E id \in DOMAIN jm_jobs :
          /\ jm_jobs[id].template_id # jm_template.template_id
          /\ jm_now - jm_jobs[id].created_at = jm_stale_grace
    /\ \E id \in DOMAIN jm_jobs :
          /\ jm_jobs[id].template_id = jm_template.template_id
          /\ jm_now - jm_jobs[id].created_at > jm_stale_grace

--------------------------------------------------------------------------
(* Claims about the session registry *)

\* the sessions of the registry that came from ip
SessionsOfIp(ip) == {id \in DOMAIN sm_sessions : sm_sessions[id].ip = ip}

\* C7 as stated: under any interleaving of create_session and remove_session
\* calls the registry never holds more than max_total sessions, nor more than
\* max_per_ip sessions of one IP.
C7_SessionCaps ==
    /\ Cardinality(DOMAIN sm_sessions) <= sm_max_total
    /\ \A ip \in SIps : Cardinality(SessionsOfIp(ip)) <= sm_max_per_ip

\* C7, the per-IP half alone (the total cap is broken first by the race on
\* sessions.len()).
C7_PerIpCap ==
    \A ip \in SIps : Cardinality(SessionsOfIp(ip)) <= sm_max_per_ip

--------------------------------------------------------------------------
(* Claims about the connection handler, checked under Spec *)

\* hash <= target as 256-bit little-endian numbers: equal, or smaller at
\* the highest byte where they differ
NumLE(hash, target) ==
    \/ hash = target
    \/ \E i \in 1..32 : /\ hash[i] < target[i]
                        /\ \A j \in (i + 1)..32 : hash[j] = target[j]

\* connection c's task passes in this step the checks that come before the
\* hash (lines 233-299) and goes on to compute_hash
HashingStep(c) == pc[c] = "loop" /\ pc'[c] = "hashing"

\* connection c's task calls submit_block in this step
ForwardStep(c) == pc[c] = "hashing" /\ pc'[c] = "submitting"

\* connection c's task sends a message in this step
SendStep(c) == sent'[c] # sent[c]

\* connection c's task ends an arm in this step with a message whose send
\* it awaits, and the message
ReplyStep(c) == pc[c] # "sending" /\ pc'[c] = "sending"
Reply(c) == loc'[c].out[1]

\* the message is an ACCEPTED / a STALE SubmitResult
IsAccepted(msg) == msg.type = "submit_result" /\ msg.status = "ACCEPTED"
IsStale(msg) == msg.type = "submit_result" /\ msg.status = "STALE"

\* C1: submit_block is called, and ACCEPTED returned, only for a submission
\* whose job is in the registry, is not stale when checked, whose
\* reconstructed blob carries the job's reserved_value in its reserved
\* region and whose hash is at most the job's target; no other step calls
\* the daemon.
C1_OnlyValidForwarded ==
    [][/\ \A c \in Conns : HashingStep(c) =>
              LET jid == loc'[c].req[1].job_id
                  blob == HexDecode(loc'[c].blob).bytes
              IN  /\ jid \in DOMAIN jobs
                  /\ loc'[c].job = <<jobs[jid]>>
                  /\ \/ jobs[jid].template_id = CurrentTemplateId(template_slot)
                     \/ now - jobs[jid].created_at <= JGrace
                  /\ Len(blob) >= min_blob_len
                  /\ jobs[jid].reserved_offset + Len(jobs[jid].reserved_value) <= Len(blob)
                  /\ SubSeq(blob, jobs[jid].reserved_offset + 1,
                            jobs[jid].reserved_offset + Len(jobs[jid].reserved_value))
                         = jobs[jid].reserved_value
       /\ \A c \in Conns : ForwardStep(c) =>
              /\ daemon_calls' = daemon_calls + 1
              /\ loc'[c].req = loc[c].req
              /\ loc'[c].job = loc[c].job
              /\ loc'[c].blob = loc[c].blob
              /\ NumLE(loc'[c].hash, HexDecode(loc[c].job[1].target_hex).bytes)
       /\ \A c \in Conns :
              /\ (pc'[c] = "hashing" /\ pc[c] # "hashing") => pc[c] = "loop"
              /\ (pc'[c] = "submitting" /\ pc[c] # "submitting") => pc[c] = "hashing"
       /\ daemon_calls' # daemon_calls => \E c \in Conns : ForwardStep(c)
       /\ \A c \in Conns :
              /\ (ReplyStep(c) /\ IsAccepted(Reply(c))) => pc[c] = "submitting"
              /\ SendStep(c) => loc[c].out = <<sent'[c].last>>]_vars

\* a submission was forwarded to the daemon and answered ACCEPTED
C1_Witness ==
    \E c \in Conns : /\ sent[c].last.type = "submit_result"
                     /\ sent[c].last.status = "ACCEPTED"
                     /\ daemon_calls > 0

\* connection c's task is sending the refusal
Refusing(c) == pc[c] = "sending" /\ loc[c].on_ok = "refused"

\* the connections whose task is inside the loop (before line 187), those
\* that have entered it, and those whose session create_session has
\* inserted and remove_session not yet removed
InLoop ==
    {c \in Conns : /\ pc[c] \in {"loop", "changed", "minting", "sending", "hashing",
                                 "submitting", "leaving"}
                   /\ ~Refusing(c)}
Entered == InLoop \cup {c \in Conns : pc[c] \in {"removing", "decrementing", "dropping",
                                                    "closed"}}
Registered == InLoop \cup {c \in Conns : pc[c] \in {"created", "removing"}}

\* C8: a connection that create_session refused has been sent exactly one
\* message, the RATE_LIMIT error, has no session in the registry and is
\* not counted in the connection metrics.
C8_RefusalIsOneError ==
    /\ \A c \in Conns : pc[c] = "refused" =>
          /\ sent[c].n = 1
          /\ sent[c].last.type = "error"
          /\ sent[c].last.code = "RATE_LIMIT"
          /\ SessionIdOf(c) \notin DOMAIN sessions
    /\ DOMAIN sessions = {SessionIdOf(c) : c \in Registered}
    /\ metrics.connections_total = Cardinality(Entered)
    /\ metrics.connections_active = Cardinality(InLoop)

\* a connection was refused while another one is open
C8_Witness ==
    \E c, d \in Conns : pc[c] = "refused" /\ pc[d] = "loop"

\* C10: a Submit for a job of template T, handled when the published
\* template is T+1 and less than stale_grace_ms after T+1 was published,
\* is not answered STALE.
C10_GraceFromRotation ==
    [][\A c \in Conns :
          (/\ pc[c] = "loop"
           /\ ReplyStep(c)
           /\ IsStale(Reply(c)))
          => LET job == jobs[loc'[c].req[1].job_id]
             IN  ~(/\ template_slot.value # <<>>
                   /\ template_slot.value[1].template_id = job.template_id + 1
                   /\ now - template_slot.value[1].created_at < JGrace)]_vars

--------------------------------------------------------------------------
(* Claims about the Submit pipeline, checked under SpecSubmit *)

\* connection c's task handles a Submit frame in this step (the message
\* limiter admitted it)
SubmitStep(c) ==
    /\ pc[c] = "loop"
    /\ metrics'.messages_received = metrics.messages_received + 1
    /\ loc'[c].req # <<>>
    /\ loc'[c].req[1].type = "submit"
    /\ (ReplyStep(c) \/ HashingStep(c))

\* the submit limiter of c's session admits a submission now
SubmitLimiterAdmits(c) ==
    /\ SessionIdOf(c) \in DOMAIN sessions
    /\ RateLimiterCheck(sessions[SessionIdOf(c)].limits.submits, now).ok

\* the Submit handled in this step names a job of template T that is older
\* than the grace, while the published template is T+1
SubmitsStaleJob(c) ==
    LET jid == loc'[c].req[1].job_id
    IN  /\ jid \in DOMAIN jobs
        /\ CurrentTemplateId(template_slot) = jobs[jid].template_id + 1
        /\ now - jobs[jid].created_at > JGrace

\* the step answers c with STALE, counts it as stale and as nothing else,
\* and calls no daemon; the task goes on with its loop once the reply is sent
AnsweredStale(c) ==
    /\ ReplyStep(c)
    /\ IsStale(Reply(c))
    /\ metrics'.submissions_stale = metrics.submissions_stale + 1
    /\ metrics'.submissions_accepted = metrics.submissions_accepted
    /\ metrics'.submissions_rejected = metrics.submissions_rejected
    /\ daemon_calls' = daemon_calls
    /\ loc'[c].on_ok = "loop"

\* C11: a Submit that reaches the checks (its session's submit limiter
\* admits it) for a job of template T, handled when T+1 is published and the
\* grace has passed, is answered STALE, counted as stale and as no other
\* outcome, and not forwarded to the daemon.
C11_StaleAnswered ==
    [][\A c \in Conns :
          (SubmitStep(c) /\ SubmitsStaleJob(c) /\ SubmitLimiterAdmits(c))
          => AnsweredStale(c)]_vars

\* a Submit was answered STALE and counted
C11_Witness ==
    \E c \in Conns : /\ sent[c].last.type = "submit_result"
                     /\ sent[c].last.status = "STALE"
                     /\ metrics.submissions_stale = 1
                     /\ metrics.submissions_rejected = 0

\* the Submit handled in this step names a job id the registry does not hold
SubmitsUnknownJob(c) == loc'[c].req[1].job_id \notin DOMAIN jobs

\* the step answers c with REJECTED "Unknown job" and counts a rejection;
\* nothing is counted stale, no VM is built, no daemon is called, and the
\* task and its session stay
AnsweredUnknown(c) ==
    /\ ReplyStep(c)
    /\ Reply(c).type = "submit_result"
    /\ Reply(c).status = "REJECTED"
    /\ Reply(c).message = "Unknown job"
    /\ Len(loc'[c].out) = 1
    /\ metrics'.submissions_rejected = metrics.submissions_rejected + 1
    /\ metrics'.submissions_stale = metrics.submissions_stale
    /\ metrics'.submissions_accepted = metrics.submissions_accepted
    /\ validator' = validator
    /\ daemon_calls' = daemon_calls
    /\ loc'[c].on_ok = "loop"
    /\ SessionIdOf(c) \in DOMAIN sessions'

\* C12: a Submit that reaches the checks and names a job id the registry
\* does not hold (never issued, or removed by the sweep) is answered
\* REJECTED "Unknown job" without staleness check, hashing or daemon call,
\* and the session stays open.
C12_UnknownJobRejected ==
    [][\A c \in Conns :
          (SubmitStep(c) /\ SubmitsUnknownJob(c) /\ SubmitLimiterAdmits(c))
          => AnsweredUnknown(c)]_vars

\* the job the session was given has been swept, and a Submit naming it was
\* answered "Unknown job"
C12_Witness ==
    \E c \in Conns :
        /\ loc[c].req # <<>>
        /\ loc[c].req[1].type = "submit"
        /\ <<loc[c].req[1].job_id>> = AfterHello(FALSE, SubmitConfig, EpochSeed).sessions[SessionIdOf(1)].current_job_id
        /\ loc[c].req[1].job_id \notin DOMAIN jobs
        /\ sent[c].last.type = "submit_result"
        /\ sent[c].last.message = "Unknown job"
        /\ pc[c] = "loop"

--------------------------------------------------------------------------
(* Claims about the functions, checked under SpecFn; C13 under SpecStructure *)

\* the characters hex::decode reads as digits
HexDigits == {HexChars[i] : i \in 1..16} \cup {"A", "B", "C", "D", "E", "F"}

\* the text is valid hex: an even number of hex digits
IsHex(s) == Len(s) % 2 = 0 /\ \A i \in 1..Len(s) : s[i] \in HexDigits

\* the value of a hex digit, by its place among the digits
DigitValue(c) == CHOOSE v \in 0..15 : c \in {HexChars[v + 1], UpperHex(<<HexChars[v + 1]>>)[1]}

\* the byte at index k (from 0) of what a valid hex text decodes to
ByteAt(s, k) == 16 * DigitValue(s[2 * k + 1]) + DigitValue(s[2 * k + 2])

\* what the claim says is accepted: valid hex of at least min_blob_len
\* bytes that holds the whole reserved region, with the job's reserved value
\* in it (a job's reserved_value has reserve_size bytes)
Accepts(blob_hex, job) ==
    /\ IsHex(blob_hex)
    /\ Len(blob_hex) \div 2 >= min_blob_len
    /\ job.reserved_offset + Len(job.reserved_value) <= Len(blob_hex) \div 2
    /\ \A i \in 0..(Len(job.reserved_value) - 1) :
           ByteAt(blob_hex, job.reserved_offset + i) = job.reserved_value[i + 1]

\* the blob has the bytes of the job's blob but for one, which lies in the
\* reserved window
DiffersInWindow(blob_hex, job) ==
    /\ IsHex(blob_hex)
    /\ Len(blob_hex) = Len(job.blob_hex)
    /\ \E k \in 0..(Len(blob_hex) \div 2 - 1) :
           /\ k >= job.reserved_offset
           /\ k < job.reserved_offset + Len(job.reserved_value)
           /\ \A m \in 0..(Len(blob_hex) \div 2 - 1) :
                  (ByteAt(blob_hex, m) # ByteAt(job.blob_hex, m)) <=> (m = k)

\* the reply that rejects for a reserved value mismatch
MismatchReply(id) ==
    [type |-> "submit_result", id |-> id, status |-> "REJECTED",
     message |-> "Validation error: Reserved value mismatch"]

\* connection c's task handles in this step a Submit that reaches
\* structural validation: the submit limiter admits it, its job is in the
\* registry and not stale, and its nonce is four bytes of hex
ReachesValidation(c) ==
    /\ SubmitStep(c)
    /\ SubmitLimiterAdmits(c)
    /\ loc'[c].req[1].job_id \in DOMAIN jobs
    /\ ~is_stale(jobs[loc'[c].req[1].job_id], CurrentTemplateId(template_slot), now, JGrace)
    /\ apply_nonce(jobs[loc'[c].req[1].job_id], loc'[c].req[1].nonce).ok

\* the blob rebuilt for the Submit handled in this step, as hex
RebuiltBlob(c) ==
    HexEncode(apply_nonce(jobs[loc'[c].req[1].job_id], loc'[c].req[1].nonce).blob)

\* the job of the Submit handled in this step is one whose own blob is
\* accepted, and the rebuilt blob differs from it in one byte inside the
\* reserved window
RebuiltChanged(c) ==
    \E job \in {jobs[loc'[c].req[1].job_id]}, blob_hex \in {RebuiltBlob(c)} :
        Accepts(job.blob_hex, job) /\ DiffersInWindow(blob_hex, job)

\* connection c's task handles in this step a text frame that the message
\* limiter admitted and that is no ClientMessage
UnparsedStep(c) ==
    /\ pc[c] = "loop"
    /\ metrics'.messages_received = metrics.messages_received + 1
    /\ loc'[c].req # <<>>
    /\ loc'[c].req[1].type = "text"

\* the text is a submit frame whose payload holds blob_hex and no nonce,
\* for a job of the registry whose own blob is accepted, and the blob
\* differs from the job's in one byte inside the reserved window
EchoesChangedBlob(json) ==
    /\ json.v["type"].v = <<"s", "u", "b", "m", "i", "t">>
    /\ DOMAIN json.v.payload.v = {"job_id", "blob_hex"}
    /\ json.v.payload.v.job_id.v \in DOMAIN jobs
    /\ \E job \in {jobs[json.v.payload.v.job_id.v]}, blob_hex \in {json.v.payload.v.blob_hex.v} :
          Accepts(job.blob_hex, job) /\ DiffersInWindow(blob_hex, job)

\* the step answers c with REJECTED for the mismatch and calls no daemon
AnsweredMismatch(c) ==
    /\ ReplyStep(c)
    /\ Reply(c) = MismatchReply(loc'[c].req[1].id)
    /\ ~HashingStep(c)
    /\ daemon_calls' = daemon_calls

\* validate_blob accepts a text exactly when it is valid hex of at least 76
\* bytes that holds the whole reserved region with the job's reserved value
AcceptsIffStructure ==
    (fn_out # <<>> /\ fn_in.kind = "blob") =>
        (fn_out[1].result.ok <=> Accepts(fn_in.blob_hex, fn_in.job))

\* C13 as stated: structural validation accepts a blob exactly when it is
\* valid hex of at least 76 bytes, holds the whole reserved region and
\* carries the job's reserved value there; and a blob that differs from the
\* job's blob in one byte inside the reserved window, whether the client
\* sent it in its Submit or the server rebuilt it from the nonce, is
\* answered SubmitResult REJECTED with the reserved-value-mismatch message
\* and not forwarded.
C13_ChangedBlobRejected ==
    /\ []AcceptsIffStructure
    /\ [][pc # <<>> =>
             \A c \in Conns :
                /\ (ReachesValidation(c) /\ RebuiltChanged(c)) => AnsweredMismatch(c)
                /\ (UnparsedStep(c) /\ EchoesChangedBlob(loc'[c].req[1].json))
                   => /\ ReplyStep(c)
                      /\ Reply(c) = MismatchReply("r")
                      /\ daemon_calls' = daemon_calls]_vars

\* C13 as the code has it: structural validation accepts a blob exactly
\* when it is valid hex of at least 76 bytes, holds the whole reserved
\* region and carries the job's reserved value there; a Submit carries a
\* nonce, and when it reaches validation and the blob rebuilt from the
\* job's blob and the nonce differs from the job's blob in one byte inside
\* the reserved window, it is answered SubmitResult REJECTED with the
\* reserved-value-mismatch message and not forwarded; a Submit frame that
\* holds such a blob as blob_hex in place of the nonce is answered with
\* the error BAD_FORMAT and not forwarded.
C13_StructuralValidation ==
    /\ []AcceptsIffStructure
    /\ [][pc # <<>> =>
             \A c \in Conns :
                /\ (ReachesValidation(c) /\ RebuiltChanged(c)) => AnsweredMismatch(c)
                /\ (UnparsedStep(c) /\ EchoesChangedBlob(loc'[c].req[1].json))
                   => /\ ReplyStep(c)
                      /\ Reply(c) = ErrorMessage("BAD_FORMAT", "Invalid message format")
                      /\ ~HashingStep(c)
                      /\ daemon_calls' = daemon_calls]_vars

\* a Submit whose nonce changes the last byte of the reserved window, and
\* no other byte of the job's blob, was answered REJECTED for the mismatch,
\* and no daemon was called
C13_Witness ==
    /\ pc # <<>>
    /\ loc[1].req # <<>>
    /\ loc[1].req[1].type = "submit"
    /\ loc[1].req[1].nonce = <<"0", "0", "3", "0", "3", "0", "3", "1">>
    /\ loc[1].req[1].job_id \in DOMAIN jobs
    /\ \E job \in {jobs[loc[1].req[1].job_id]} :
          \E blob_hex \in {HexEncode(apply_nonce(job, loc[1].req[1].nonce).blob)} :
              DiffersInWindow(blob_hex, job)
    /\ sent[1].last = MismatchReply("r")
    /\ daemon_calls = 0

\* the digits, base 256 and least significant first, of target * d
RECURSIVE MulLE(_, _, _, _, _)
MulLE(target, d, i, carry, acc) ==
    IF i > Len(acc) THEN acc
    ELSE LET v == (IF i <= Len(target) THEN target[i] ELSE 0) * d + carry
         IN  MulLE(target, d, i + 1, v \div 256, [acc EXCEPT ![i] = v % 256])

\* target = floor(2^256 / d) for 2 <= d < 2^24, that is
\* target * d <= 2^256 < (target + 1) * d: the product is 2^256, or it is
\* below 2^256 by less than d, so all its digits from the fourth on are 255
IsFloorOfPow256(target, d) ==
    LET prod == MulLE(target, d, 1, 0, [i \in 1..36 |-> 0])
        low == prod[1] + 256 * prod[2] + 65536 * prod[3]
    IN  \/ prod = [i \in 1..36 |-> IF i = 33 THEN 1 ELSE 0]
        \/ /\ \A i \in 4..32 : prod[i] = 255
           /\ \A i \in 33..36 : prod[i] = 0
           /\ 16777216 - low < d

\* C16: difficulty_to_target(d) is 32 bytes of 0xff for d <= 1 and the
\* 32-byte little-endian floor(2^256 / d) for d >= 2; for d = 2 byte 31 is
\* 0x80 and the others are 0.
C16_TargetIsFloor ==
    (fn_out # <<>> /\ fn_in.kind = "difficulty") =>
        LET d == fn_in.d1
            target == fn_out[1].t1
        IN  /\ DOMAIN target = 1..32
            /\ \A i \in 1..32 : target[i] \in 0..255
            /\ d <= 1 => target = [i \in 1..32 |-> 255]
            /\ d >= 2 => IsFloorOfPow256(target, d)
            /\ d = 2 => target = [i \in 1..32 |-> IF i = 32 THEN 128 ELSE 0]

\* difficulty 2 was converted to byte 31 = 0x80, and a difficulty below 2
\* to 0xff bytes
C16_Witness ==
    /\ fn_out # <<>>
    /\ fn_in.kind = "difficulty"
    /\ fn_in.d1 = 2
    /\ fn_out[1].t1[32] = 128
    /\ fn_in.d2 = 1
    /\ fn_out[1].t2[32] = 255

\* a < b as 256-bit little-endian numbers: smaller at the highest byte
\* where they differ
NumLT(a, b) ==
    \E i \in 1..32 : /\ a[i] < b[i]
                      /\ \A j \in (i + 1)..32 : a[j] = b[j]

\* C17: for difficulties 2 <= d1 < d2 the target of d1 is strictly greater
\* than the target of d2 as 256-bit little-endian numbers.
C17_TargetStrictlyDecreasing ==
    (fn_out # <<>> /\ fn_in.kind = "difficulty" /\ 2 <= fn_in.d1 /\ fn_in.d1 < fn_in.d2) =>
        NumLT(fn_out[1].t2, fn_out[1].t1)

\* two neighbouring large difficulties were converted to different targets
C17_Witness ==
    /\ fn_out # <<>>
    /\ fn_in.kind = "difficulty"
    /\ fn_in.d1 >= 65536
    /\ fn_in.d2 = fn_in.d1 + 1
    /\ NumLT(fn_out[1].t2, fn_out[1].t1)

\* the number an array of FnArrays stands for, scaled: the arrays are zero
\* but for bytes 0, 15 and 31, so their order as 256-bit numbers is the
\* order of these
Rank(a) == a[1] + 256 * a[16] + 65536 * a[32]

\* C18: check_meets_target(hash, target) is true exactly when hash <= target
\* as 256-bit little-endian numbers: the most significant differing byte
\* decides and equal arrays give true.
C18_MeetsIffLessOrEqual ==
    (fn_out # <<>> /\ fn_in.kind = "hash") =>
        /\ fn_out[1] <=> NumLE(fn_in.hash, fn_in.target)
        /\ fn_out[1] <=> (Rank(fn_in.hash) <= Rank(fn_in.target))

\* a hash equal to the target was found to meet it
C18_Witness ==
    /\ fn_out # <<>>
    /\ fn_in.kind = "hash"
    /\ fn_in.hash = fn_in.target
    /\ fn_in.hash[32] = 128
    /\ fn_out[1] = TRUE

--------------------------------------------------------------------------
(* Claims about frames, the Hello, the target test and the template ids,   *)
(* checked under Spec                                                      *)

\* connection c's task receives a text frame in this step
FrameStep(c) ==
    /\ pc[c] = "loop"
    /\ frames_left' = frames_left - 1
    /\ (ReplyStep(c) \/ HashingStep(c))

\* the number of frames of c's session admitted within the last second
AdmittedLastSecond(c) ==
    LET ts == sessions[SessionIdOf(c)].limits.messages.timestamps
    IN  Cardinality({i \in DOMAIN ts : now - ts[i] < MessageWindowMs})

\* a session but for its limiters
SessionState(s) ==
    [id |-> s.id, ip |-> s.ip, state |-> s.state, client_version |-> s.client_version,
     threads |-> s.threads, current_job_id |-> s.current_job_id,
     current_reserved_value |-> s.current_reserved_value,
     last_activity |-> s.last_activity]

\* C14: with messages_per_second = N, a text frame received when N frames
\* of the session were admitted within the last second is answered with an
\* error of code RATE_LIMIT and counted once in rate_limits_hit; it is not
\* parsed or dispatched (the session but for its limiter, the jobs, the
\* task's record of its last request and every other counter are
\* unchanged), and the task stays in its loop with its session whatever
\* becomes of the send.
C14_FrameOverLimit ==
    [][\A c \in Conns :
          (/\ FrameStep(c)
           /\ SessionIdOf(c) \in DOMAIN sessions
           /\ AdmittedLastSecond(c) >= config.messages_per_second)
          => /\ ReplyStep(c)
             /\ Reply(c).type = "error"
             /\ Reply(c).code = "RATE_LIMIT"
             /\ metrics' = [metrics EXCEPT !.rate_limits_hit = @ + 1]
             /\ DOMAIN sessions' = DOMAIN sessions
             /\ \A id \in DOMAIN sessions :
                    SessionState(sessions'[id]) = SessionState(sessions[id])
             /\ jobs' = jobs
             /\ counter' = counter
             /\ loc'[c].req = loc[c].req
             /\ loc'[c].on_ok = "loop"
             /\ loc'[c].on_err = "loop"
             /\ daemon_calls' = daemon_calls]_vars

\* connection c's task handles a Hello frame in this step (the message
\* limiter admitted it)
HelloStep(c) ==
    /\ FrameStep(c)
    /\ metrics'.messages_received = metrics.messages_received + 1
    /\ loc'[c].req = <<[type |-> "hello"]>>

\* C15: an admitted Hello leaves the session Ready with client_version and
\* threads set and is answered by exactly one message: with a template
\* published, a Job newly minted for this session from that template;
\* without one, Stats with the configured limits.
C15_HelloReply ==
    [][\A c \in Conns : HelloStep(c) =>
          LET sid == SessionIdOf(c)
              msg == Reply(c)
          IN  /\ sessions'[sid].state = "Ready"
              /\ sessions'[sid].client_version = <<"v1">>
              /\ sessions'[sid].threads = 2
              /\ ReplyStep(c)
              /\ Len(loc'[c].out) = 1
              /\ IF template_slot.value # <<>>
                 THEN /\ msg.type = "job"
                      /\ msg.job_id \notin DOMAIN jobs
                      /\ DOMAIN jobs' = DOMAIN jobs \cup {msg.job_id}
                      /\ jobs'[msg.job_id].template_id = template_slot.value[1].template_id
                      /\ msg.height = template_slot.value[1].height
                      /\ msg.seed_hash = template_slot.value[1].seed_hash
                      /\ msg.blob_hex = jobs'[msg.job_id].blob_hex
                      /\ msg.reserved_value_hex = HexEncode(jobs'[msg.job_id].reserved_value)
                      /\ sessions'[sid].current_job_id = <<msg.job_id>>
                      /\ sessions'[sid].current_reserved_value =
                            <<jobs'[msg.job_id].reserved_value>>
                 ELSE /\ msg = [type |-> "stats", session_id |-> sid,
                                submits_per_minute |-> config.submits_per_minute,
                                messages_per_second |-> config.messages_per_second]
                      /\ jobs' = jobs]_vars

\* a connection's first Hello came before any template and was answered
\* Stats; its second Hello came after the first template, before the task
\* saw the change, and was answered the one Job made so far
C15_Witness ==
    /\ metrics.messages_received = 2
    /\ metrics.submissions_total = 0
    /\ metrics.rate_limits_hit = 0
    /\ metrics.jobs_created = 1
    /\ loc[1].seen < template_slot.version
    /\ loc[1].req = <<[type |-> "hello"]>>
    /\ sent[1].n = 2
    /\ sent[1].last.type = "job"
    /\ sessions[SessionIdOf(1)].state = "Ready"
    /\ sessions[SessionIdOf(1)].current_job_id = <<sent[1].last.job_id>>

\* C19 as stated: a hash is forwarded to the daemon only if it is strictly
\* below the job's target, so a hash equal to the target is not forwarded.
C19_ForwardedOnlyBelowTarget ==
    [][\A c \in Conns : ForwardStep(c) =>
          NumLT(loc'[c].hash, TargetArr(loc[c].job[1].target_hex))]_vars

\* C20: every template sent on the watch channel has the id of the one
\* before it plus 1, the first has id 1, and the id is the manager's counter.
C20_TemplateIdsIncreaseByOne ==
    [][template_slot' # template_slot =>
          /\ template_slot'.value # <<>>
          /\ template_slot'.value[1].template_id = CurrentTemplateId(template_slot) + 1
          /\ template_slot'.value[1].template_id = template_counter'
          /\ template_slot'.version = template_slot.version + 1]_vars

\* a second template was published, with id 2
C20_Witness ==
    /\ template_slot.value # <<>>
    /\ template_slot.value[1].template_id = 2
    /\ template_slot.version = 2
    /\ metrics.templates_received = 2

--------------------------------------------------------------------------
(* Claims about the template manager, checked under SpecTemplate and      *)
(* SpecTemplateFair                                                        *)

\* the height of the template on the channel, 0 when there is none
TMPublishedHeight == IF tm_slot.value = <<>> THEN 0 ELSE tm_slot.value[1].height

\* C21 as stated: when the fetch fails on a tick that detected a height
\* change and the daemon answers from some point on, a template for that
\* height is eventually published, unless the height has changed again.
C21_FailedFetchRetried ==
    \A h \in 1..TMMaxHeight :
        (<>[]tm_up) => [](tm_failed = h => <>(TMPublishedHeight = h \/ tm_height # h))

\* the height the manager has last observed: the one get_info last
\* reported, and before any report the one of the template the initial
\* fetch brought; 0 when it has seen none
TMObservedHeight == IF tm_last_height # 0 THEN tm_last_height ELSE TMPublishedHeight

\* C22 as stated: after the initial fetch get_block_template is called on a
\* tick only when get_info reports a height different from the height last
\* observed, a template is published only by such a call, and while the
\* daemon stays at the height last observed a tick leaves the channel's
\* template, its template_id and its version as they are.
C22_HeightChangeSoleTrigger ==
    [][tm_pc # "init" =>
          /\ (tm_pc = "tick" /\ tm_pc' = "refresh") => (tm_up /\ tm_height # TMObservedHeight)
          /\ tm_slot' # tm_slot => tm_pc = "refresh"
          /\ (tm_pc = "tick" /\ tm_height = TMObservedHeight /\ tm_height' = tm_height)
                => (tm_slot' = tm_slot /\ tm_template_counter' = tm_template_counter)]_vars

\* the Submit handled in this step names a job of another template than
\* the published one, made longer ago than the grace
SubmitsExpiredJob(c) ==
    LET job == jobs[loc'[c].req[1].job_id]
    IN  /\ job.template_id # CurrentTemplateId(template_slot)
        /\ now - job.created_at > JGrace

\* the Submit handled in this step fails structural validation: its nonce
\* cannot be applied, or the blob rebuilt with it is refused
SubmitsInvalidBlob(c) ==
    LET frame == loc'[c].req[1]
        applied == apply_nonce(jobs[frame.job_id], frame.nonce)
    IN  \/ ~applied.ok
        \/ ValidationReply(frame.id, applied.blob, jobs[frame.job_id]) # <<>>

\* the step answers c's Submit with status, bumps the counter named and no
\* other outcome counter, and neither primes the verifier nor calls the daemon
SubmitAnswered(c, status, counted) ==
    /\ ReplyStep(c)
    /\ Reply(c).type = "submit_result"
    /\ Reply(c).status = status
    /\ \A k \in {"submissions_accepted", "submissions_rejected", "submissions_stale",
                 "rate_limits_hit"} :
           metrics'[k] = metrics[k] + (IF k = counted THEN 1 ELSE 0)
    /\ validator' = validator
    /\ daemon_calls' = daemon_calls
    /\ jobs' = jobs

\* C26: the checks of a Submit run in a fixed order and the first that
\* fails alone determines the reply: the submit rate limit (ERROR, not
\* counted in submissions_total), the job lookup (REJECTED), staleness
\* (STALE), structural validation (REJECTED, the verifier untouched), then
\* priming the verifier (REJECTED, or the task goes on to hash), and last
\* hashing and the target (REJECTED, or the blob is forwarded).  So a stale
\* and structurally invalid Submit is answered STALE, and a rate-limited
\* one leaves the job registry alone.
C26_SubmitCheckOrder ==
    [][\A c \in Conns :
          /\ SubmitStep(c) =>
                IF ~SubmitLimiterAdmits(c)
                THEN /\ SubmitAnswered(c, "ERROR", "rate_limits_hit")
                     /\ metrics'.submissions_total = metrics.submissions_total
                ELSE /\ metrics'.submissions_total = metrics.submissions_total + 1
                     /\ IF SubmitsUnknownJob(c)
                        THEN SubmitAnswered(c, "REJECTED", "submissions_rejected")
                        ELSE IF SubmitsExpiredJob(c)
                        THEN SubmitAnswered(c, "STALE", "submissions_stale")
                        ELSE IF SubmitsInvalidBlob(c)
                        THEN SubmitAnswered(c, "REJECTED", "submissions_rejected")
                        ELSE \/ /\ HashingStep(c)
                                /\ metrics' = [metrics EXCEPT
                                                  !.messages_received = @ + 1,
                                                  !.submissions_total = @ + 1]
                                /\ daemon_calls' = daemon_calls
                             \/ /\ ReplyStep(c)
                                /\ Reply(c).status = "REJECTED"
                                /\ Reply(c).message = "Hash verification unavailable"
                                /\ metrics'.submissions_rejected = metrics.submissions_rejected + 1
                                /\ daemon_calls' = daemon_calls
          /\ (pc[c] = "hashing" /\ pc'[c] # "hashing") =>
                /\ metrics'.submissions_total = metrics.submissions_total
                /\ validator' = validator
                /\ \/ ForwardStep(c) /\ metrics' = metrics
                   \/ /\ ReplyStep(c)
                      /\ Reply(c).status = "REJECTED"
                      /\ metrics'.submissions_rejected = metrics.submissions_rejected + 1
                      /\ daemon_calls' = daemon_calls]_vars

\* a Submit with a nonce that is no hex text, for a job that had expired,
\* was answered STALE
C26_Witness ==
    \E c \in Conns :
        /\ loc[c].req # <<>>
        /\ loc[c].req[1].type = "submit"
        /\ loc[c].req[1].nonce = <<"z", "z">>
        /\ loc[c].req[1].job_id \in DOMAIN jobs
        /\ jobs[loc[c].req[1].job_id].template_id # CurrentTemplateId(template_slot)
        /\ sent[c].last.type = "submit_result"
        /\ sent[c].last.status = "STALE"

--------------------------------------------------------------------------
(* Claims about the life of connections                                    *)

\* connection c's task is live: create_session has returned its session and
\* its remove_session has not yet taken it out
TaskLive(c) == c \in Registered

\* C23: a session is in the registry iff its connection task is live:
\* present from the task's create_session on, in every state while the task
\* is in its message loop, idle eviction included, and absent once the task
\* has returned (or was refused).
C23_SessionIffTaskLive ==
    \A c \in Conns : SessionIdOf(c) \in DOMAIN sessions <=> TaskLive(c)

\* C23 as the code has it: a session in the registry belongs to a live
\* task (so it is absent once the task has returned or was refused), a
\* task that becomes live has its session in the registry, and the
\* session of a task that stays live leaves the registry only in the
\* removal step of a cleanup_idle call whose snapshot holds it.
C23_SessionOfLiveTask ==
    /\ [](\A c \in Conns : SessionIdOf(c) \in DOMAIN sessions => TaskLive(c))
    /\ [][\A c \in Conns :
              /\ (~TaskLive(c) /\ TaskLive(c)') => SessionIdOf(c)' \in DOMAIN sessions'
              /\ (/\ TaskLive(c) /\ TaskLive(c)'
                  /\ SessionIdOf(c) \in DOMAIN sessions
                  /\ SessionIdOf(c) \notin DOMAIN sessions')
                 => cl_pc = "removing" /\ SessionIdOf(c) \in cl_idle]_vars

\* a task is in its loop after a call of cleanup_idle took its session out
\* of the registry: the session was in the call's snapshot, the task
\* handled a Ping after the snapshot (the session taken out is not idle for
\* more than max_idle), and its next frame was answered RATE_LIMIT, the
\* registry's answer for a session it does not hold
C23_Witness ==
    \E c \in Conns :
        /\ pc[c] = "loop"
        /\ SessionIdOf(c) \notin DOMAIN sessions
        /\ SessionIdOf(c) \in cl_idle
        /\ cl_session # <<>>
        /\ cl_session[1].id = SessionIdOf(c)
        /\ now - cl_session[1].last_activity <= MaxIdleMs
        /\ loc[c].req # <<>>
        /\ loc[c].req[1].type = "ping"
        /\ sent[c].last.type = "error"
        /\ sent[c].last.code = "RATE_LIMIT"

\* the count the ip-count map holds for an address: none is zero
CountOf(counts, ip) == IF ip \in DOMAIN counts THEN counts[ip] ELSE 0

\* the sessions the registry holds for an address
RegisteredFrom(ip) == {id \in DOMAIN sessions : sessions[id].ip = ip}

\* connection c's task has left its message loop
Left(c) == pc[c] \in {"leaving", "removing", "decrementing", "dropping", "closed"}

\* connection c's task leaves its message loop in this step
LeavesLoop(c) == ~Left(c) /\ Left(c)'

\* no task is inside create_session or remove_session
NoCallUnderWay == \A c \in Conns : pc[c] \notin {"creating", "decrementing", "dropping"}

\* what a task does once it has left its loop: it never comes back and
\* sends nothing, decrements the count of active connections once, takes
\* its session and no other out of the registry, and then does nothing more
LeavingSteps(c) ==
    LET sid == SessionIdOf(c)
        steps == pc'[c] # pc[c]
    IN  /\ LeavesLoop(c) => pc'[c] = "leaving" /\ sid \in DOMAIN sessions'
        /\ Left(c) => Left(c)' /\ sent'[c] = sent[c]
        /\ (pc[c] = "leaving" /\ steps) =>
               /\ pc'[c] = "removing"
               /\ metrics' = [metrics EXCEPT !.connections_active = @ - 1]
               /\ sessions' = sessions
        /\ (pc[c] = "removing" /\ steps) =>
               /\ sid \in DOMAIN sessions
               /\ DOMAIN sessions' = DOMAIN sessions \ {sid}
               /\ \A id \in DOMAIN sessions' : sessions'[id] = sessions[id]
               /\ pc'[c] = "decrementing"
               /\ metrics' = metrics
        /\ (pc[c] \in {"decrementing", "dropping"} /\ steps) =>
               /\ sessions' = sessions
               /\ metrics' = metrics
        /\ pc[c] = "closed" => pc'[c] = "closed" /\ loc'[c] = loc[c]

\* C24: whenever a connection task leaves its message loop (close frame,
\* remote close, receive error, send error, template channel closed) it
\* removes its session from the registry and decrements that IP's count,
\* and the count of active connections, exactly once: once every call has
\* returned the counts equal the registered sessions; once the loop is left
\* the task sends nothing and, having returned, does nothing more.
C24_LeavingRemovesOnce ==
    /\ [][\A c \in Conns : LeavingSteps(c)]_vars
    /\ [](NoCallUnderWay =>
            \A ip \in {IpOf(c) : c \in Conns} :
                CountOf(ip_counts, ip) = Cardinality(RegisteredFrom(ip)))

\* the parts of C24 that do not concern the ip count
C24_LeavingRemoves == [][\A c \in Conns : LeavingSteps(c)]_vars

--------------------------------------------------------------------------
(* Claims about the protocol messages                                      *)

\* the type each message has on the wire, by its variant
TypeOnWire ==
    {<<<<"H", "e", "l", "l", "o">>,
       <<"h", "e", "l", "l", "o">>>>,
     <<<<"S", "u", "b", "m", "i", "t">>,
       <<"s", "u", "b", "m", "i", "t">>>>,
     <<<<"S", "h", "a", "r", "e">>,
       <<"s", "h", "a", "r", "e">>>>,
     <<<<"P", "i", "n", "g">>,
       <<"p", "i", "n", "g">>>>,
     <<<<"S", "t", "a", "t", "s">>,
       <<"s", "t", "a", "t", "s">>>>,
     <<<<"J", "o", "b">>,
       <<"j", "o", "b">>>>,
     <<<<"S", "u", "b", "m", "i", "t", "R", "e", "s", "u", "l", "t">>,
       <<"s", "u", "b", "m", "i", "t", "_", "r", "e", "s", "u", "l", "t">>>>,
     <<<<"E", "r", "r", "o", "r">>,
       <<"e", "r", "r", "o", "r">>>>,
     <<<<"P", "o", "n", "g">>,
       <<"p", "o", "n", "g">>>>}

\* the text each status and error code has on the wire, by its variant
CodeOnWire ==
    {<<<<"A", "c", "c", "e", "p", "t", "e", "d">>,
       <<"A", "C", "C", "E", "P", "T", "E", "D">>>>,
     <<<<"R", "e", "j", "e", "c", "t", "e", "d">>,
       <<"R", "E", "J", "E", "C", "T", "E", "D">>>>,
     <<<<"S", "t", "a", "l", "e">>,
       <<"S", "T", "A", "L", "E">>>>,
     <<<<"E", "r", "r", "o", "r">>,
       <<"E", "R", "R", "O", "R">>>>,
     <<<<"B", "a", "d", "F", "o", "r", "m", "a", "t">>,
       <<"B", "A", "D", "_", "F", "O", "R", "M", "A", "T">>>>,
     <<<<"U", "n", "a", "u", "t", "h", "o", "r", "i", "z", "e", "d">>,
       <<"U", "N", "A", "U", "T", "H", "O", "R", "I", "Z", "E", "D">>>>,
     <<<<"R", "a", "t", "e", "L", "i", "m", "i", "t">>,
       <<"R", "A", "T", "E", "_", "L", "I", "M", "I", "T">>>>,
     <<<<"S", "t", "a", "l", "e", "J", "o", "b">>,
       <<"S", "T", "A", "L", "E", "_", "J", "O", "B">>>>,
     <<<<"B", "a", "d", "J", "o", "b">>,
       <<"B", "A", "D", "_", "J", "O", "B">>>>,
     <<<<"B", "a", "d", "R", "e", "s", "e", "r", "v", "e", "d">>,
       <<"B", "A", "D", "_", "R", "E", "S", "E", "R", "V", "E", "D">>>>,
     <<<<"B", "a", "d", "P", "o", "w">>,
       <<"B", "A", "D", "_", "P", "O", "W">>>>,
     <<<<"I", "n", "t", "e", "r", "n", "a", "l">>,
       <<"I", "N", "T", "E", "R", "N", "A", "L">>>>,
     <<<<"R", "p", "c", "D", "o", "w", "n">>,
       <<"R", "P", "C", "_", "D", "O", "W", "N">>>>}

\* C25: every protocol message (hello, submit, ping, stats, job,
\* submit_result, error, pong; share too) parses back from what it was
\* serialized to with every field equal, carries the snake_case name of
\* its variant in the field type, and its status or error code is written
\* in SCREAMING_SNAKE_CASE.
C25_MessagesRoundTrip ==
    (fn_in # <<>> /\ fn_in.kind = "message" /\ fn_out # <<>>) =>
        LET json == fn_out[1].json
            parsed == fn_out[1].parsed
        IN  /\ parsed.ok
            /\ parsed.msg = fn_in.msg
            /\ json.v["type"].t = "string"
            /\ <<fn_in.msg.variant, json.v["type"].v>> \in TypeOnWire
            /\ "status" \in DOMAIN fn_in.msg.payload =>
                   /\ json.v.payload.v.status.t = "string"
                   /\ <<fn_in.msg.payload.status, json.v.payload.v.status.v>> \in CodeOnWire
            /\ "code" \in DOMAIN fn_in.msg.payload =>
                   /\ json.v.payload.v.code.t = "string"
                   /\ <<fn_in.msg.payload.code, json.v.payload.v.code.v>> \in CodeOnWire

\* a submit_result without message was written without the key message,
\* its status as REJECTED, and parsed back
C25_Witness ==
    /\ fn_in # <<>>
    /\ fn_in.kind = "message"
    /\ fn_out # <<>>
    /\ fn_out[1].json.v["type"].v = <<"s", "u", "b", "m", "i", "t", "_", "r", "e", "s", "u", "l", "t">>
    /\ fn_out[1].json.v.payload.v.status.v = <<"R", "E", "J", "E", "C", "T", "E", "D">>
    /\ "message" \notin DOMAIN fn_out[1].json.v.payload.v
    /\ fn_out[1].parsed.ok
    /\ fn_out[1].parsed.msg.payload.message = <<>>

\* the send connection c's task awaits fails in this step
FailedSend(c) ==
    /\ pc[c] = "sending"
    /\ ~Refusing(c)
    /\ loc[c].socket = "broken"
    /\ pc'[c] # "sending"

\* C27: any failed send on a session's socket ends the session: when the
\* send of a Job, of a reply, of the RATE_LIMIT error or of the BAD_FORMAT
\* error fails, the task leaves its loop, so that it handles no further
\* frame and no template change and goes on to remove its session.
C27_FailedSendEndsSession ==
    [][\A c \in Conns : FailedSend(c) => pc'[c] = "leaving"]_vars

\* the same for the sends whose result the task tests: the Job and the reply
C27_TestedSendEndsSession ==
    [][\A c \in Conns :
          (FailedSend(c) /\ loc[c].out[1].type # "error") => pc'[c] = "leaving"]_vars

\* connection c's session is Ready while a template is published
ReadyWithTemplate(c) ==
    /\ SessionIdOf(c) \in DOMAIN sessions
    /\ sessions[SessionIdOf(c)].state = "Ready"
    /\ template_slot.value # <<>>

\* the Job connection c's session holds is of the published template and
\* has been sent: its send is not the one the task awaits
HoldsLatestJob(c) ==
    LET current == sessions[SessionIdOf(c)].current_job_id
    IN  /\ current # <<>>
        /\ current[1] \in DOMAIN jobs
        /\ jobs[current[1]].template_id = CurrentTemplateId(template_slot)
        /\ sent[c].n > 0
        /\ ~(/\ pc[c] = "sending"
              /\ loc[c].out[1].type = "job"
              /\ loc[c].out[1].job_id = current[1])

\* C28: under fair scheduling and with sends succeeding, a session in
\* state Ready is eventually sent a Job of the latest published template
\* (or has ended): whether the template was published before the Hello,
\* after it, or while a Submit awaited the daemon.
C28_ReadyGetsLatestJob ==
    \A c \in Conns :
        ReadyWithTemplate(c) ~> (SessionIdOf(c) \notin DOMAIN sessions \/ HoldsLatestJob(c))

\* a session that was waiting for the daemon while the second template was
\* published holds a job of that template
C28_Witness ==
    \E c \in Conns :
        /\ ReadyWithTemplate(c)
        /\ HoldsLatestJob(c)
        /\ CurrentTemplateId(template_slot) = 2
        /\ metrics.submissions_accepted + metrics.submissions_rejected > 0
        /\ daemon_calls > 0

--------------------------------------------------------------------------
(* Claims about the registry's ip counts and about cleanup_idle *)

\* no create_session or remove_session call is under way
SCallsCompleted == \A t \in STasks : sm_pc[t] \in {"idle", "live"}

\* C29: when no create_session or remove_session call is under way, the
\* ip-count map holds no entry whose count is zero; removing the last
\* session of an address deletes its entry and a refused create_session
\* leaves no zero entry behind, for every max_per_ip from 0 on.
C29_NoZeroCount ==
    SCallsCompleted => \A ip \in DOMAIN sm_ip_counts : sm_ip_counts[ip] > 0

\* C30: when cleanup_idle(max_idle) returns it has removed exactly the
\* sessions whose last_activity was older than max_idle at the time of the
\* call (none of them is registered any more and it took out no other),
\* every address's count is the number of its registered sessions (no task
\* being inside create_session or remove_session), and the value returned is the number of sessions the call took out itself, also
\* when connection tasks removed sessions between snapshot and removals.
C30_CleanupExactAndCounted ==
    cl_pc = "done" =>
        /\ cl_idle \cap DOMAIN sessions = {}
        /\ cl_found \subseteq cl_idle
        /\ NoCallUnderWay =>
               \A ip \in {IpOf(c) : c \in Conns} :
                   CountOf(ip_counts, ip) = Cardinality(RegisteredFrom(ip))
        /\ cl_removed = Cardinality(cl_found)

--------------------------------------------------------------------------
(* Claims about a session evicted while its task runs *)

\* connection c's task is running and its session is not in the registry
Evicted(c) == TaskLive(c) /\ SessionIdOf(c) \notin DOMAIN sessions

\* what holds of an evicted task's steps apart from its end: both limiters
\* answer false, nothing is dispatched for it (its last dispatched request
\* stays, no daemon call), a reply it makes is an error, no step of the task
\* mints a job, the session stays out of the registry, and its final
\* remove_session leaves the ip counts as they are
EvictedIsRefused(c) ==
    /\ ~check_message_limit(sessions, SessionIdOf(c), now).ok
    /\ ~check_submit_limit(sessions, SessionIdOf(c), now).ok
    /\ loc'[c].req = loc[c].req
    /\ ~HashingStep(c)
    /\ ~ForwardStep(c)
    /\ ReplyStep(c) => Reply(c).type = "error" /\ Len(loc'[c].out) = 1
    /\ loc'[c] # loc[c] => jobs' = jobs /\ metrics'.jobs_created = metrics.jobs_created
    /\ SessionIdOf(c) \notin DOMAIN sessions'
    /\ (pc[c] = "removing" /\ pc'[c] # "removing") => pc'[c] = "closed" /\ ip_counts' = ip_counts

\* C31: after idle eviction took the session of a running task, the
\* limiters report false for it, its frames are answered with an error and
\* never dispatched, no Job is minted for it on a template change, its
\* final remove_session leaves the ip counts alone, and the task runs until
\* a send fails or the peer closes: a send of it that fails takes it out of
\* the loop.
C31_EvictedTaskRefusedUntilSendFails ==
    [][\A c \in Conns : Evicted(c) =>
          /\ EvictedIsRefused(c)
          /\ FailedSend(c) => pc'[c] = "leaving"]_vars

\* the parts of C31 that do not concern the failed send, for a task that
\* is not between the get_session and the create_job of lines 124-126
C31_EvictedTaskRefused ==
    [][\A c \in Conns : (Evicted(c) /\ pc[c] # "minting") => EvictedIsRefused(c)]_vars

--------------------------------------------------------------------------
(* Claims about the sweep of the job registry *)

\* the age of job j of the registry
JobAge(j) == now - jobs[j].created_at

\* C32: cleanup_old_jobs(max_age_ms) removes exactly the jobs whose age is
\* at least max_age_ms and keeps every younger job unchanged; a job of the
\* registry is returned by get_job as it was made, current or stale, and
\* leaves the registry only by such a sweep.
C32_SweepRemovesOldJobsOnly ==
    /\ [](\A j \in DOMAIN jobs : get_job(jobs, j) = [some |-> TRUE, job |-> jobs[j]])
    /\ [][\A j \in DOMAIN jobs :
            /\ j \in DOMAIN jobs' => jobs'[j] = jobs[j]
            /\ j \notin DOMAIN jobs' =>
                  /\ JobAge(j) >= JobTtlMs
                  /\ \A k \in DOMAIN jobs : JobAge(k) >= JobTtlMs => k \notin DOMAIN jobs'
                  /\ DOMAIN jobs' \subseteq DOMAIN jobs]_vars

\* a sweep has removed the first job, of age max_age_ms, and the registry
\* holds a younger job, which is not of the published template
C32_Witness ==
    /\ Format016x(0) \notin DOMAIN jobs
    /\ now = JobTtlMs
    /\ \E j \in DOMAIN jobs :
          /\ JobAge(j) < JobTtlMs
          /\ jobs[j].template_id # CurrentTemplateId(template_slot)
          /\ get_job(jobs, j).some

--------------------------------------------------------------------------
(* Claims about the shared verifier *)

\* task t returns from init_vm in this step
InitVmStep(t) == v_pc[t] = "idle" /\ (v_pc'[t] = "primed" \/ v_loc'[t] # v_loc[t])

\* C33: init_vm(seed) changes nothing and returns Ok when seed is the
\* cached seed hash; otherwise a rebuild that fails returns an error and
\* leaves the cached seed hash and the verifier as they were, and one that
\* succeeds stores both; so the verifier, when present, is the one built
\* for the cached seed hash.
C33_InitVmKeepsVerifierOfCachedSeed ==
    /\ [](v_vm # <<>> => v_vm = <<v_current>>)
    /\ [][\A t \in VTasks : InitVmStep(t) =>
            /\ v_loc'[t].seed = v_current => v_loc'[t].ok
            /\ (v_loc'[t].seed = v_current \/ ~v_loc'[t].ok)
                  => v_vm' = v_vm /\ v_current' = v_current
            /\ (v_loc'[t].seed # v_current /\ v_loc'[t].ok)
                  => v_vm' = <<v_loc'[t].seed>> /\ v_current' = v_loc'[t].seed
            /\ ~HexDecode(v_loc'[t].seed).ok => ~v_loc'[t].ok]_vars

\* a rebuild for another seed has failed and the verifier of the cached
\* seed is still in place
C33_Witness ==
    \E t \in VTasks :
        /\ ~v_loc[t].ok
        /\ v_loc[t].seed # v_current
        /\ HexDecode(v_loc[t].seed).ok
        /\ v_vm = <<v_current>>

\* C34: whenever compute_hash has run for a submission, the verifier it
\* used was the one keyed by that submission's job.seed_hash, also with
\* submissions of other seed hashes handled in parallel.
C34_HashedWithOwnSeed ==
    \A t \in VTasks : v_loc[t].key # <<>> => v_loc[t].key = <<v_loc[t].seed>>

--------------------------------------------------------------------------
(* Claims about failed daemon calls *)

\* C35: a failed daemon call (get_info or get_block_template) does not stop
\* the template manager and changes nothing visible: while the daemon does
\* not answer, no step advances template_counter, changes the published
\* slot or its version (no notification) or counts a template, and the
\* task that made a failed fetch is back at its ticker; the slot, once it
\* holds a template, never reverts to empty.
C35_FailedCallChangesNothing ==
    /\ [][(~tm_up /\ ~tm_up') =>
            /\ tm_template_counter' = tm_template_counter
            /\ tm_slot' = tm_slot
            /\ tm_templates_received' = tm_templates_received
            /\ tm_pc' # tm_pc => tm_pc' = "tick"]_vars
    /\ [][tm_slot.value # <<>> => tm_slot'.value # <<>>]_vars

\* a fetch has failed after a template was published: the manager is at
\* its ticker and the slot holds the template published before
C35_Witness ==
    /\ tm_failed # 0
    /\ tm_pc = "tick"
    /\ tm_slot.value # <<>>
    /\ tm_slot.value[1].height < tm_failed
    /\ tm_slot.version = tm_template_counter

--------------------------------------------------------------------------
(* Claims about the ip counts under interleaved calls *)

\* C36: whenever no create_session or remove_session call (cleanup_idle's
\* included) is under way, every address's ip-count entry equals the number
\* of registered sessions of that address, an absent entry counting as
\* zero, whatever the interleaving of the calls before.
C36_CountsMatchSessions ==
    SCallsCompleted =>
        \A ip \in SIps :
            CountOf(sm_ip_counts, ip) = Cardinality(SessionsOfIp(ip))


\* ---------------------------------------------------------------------------
\* Claims about whose jobs a session may submit
\* ---------------------------------------------------------------------------

\* the job is one that connection c's task got from create_job with its
\* session's id (server.rs, lines 126 and 206)
MintedFor(job, c) == job.job_id \in loc[c].minted

\* connection c's task calls submit_block in this step
Forwards(c) == pc[c] # "submitting" /\ pc'[c] = "submitting"

\* C37: a Submit is forwarded to the daemon only on the connection of the
\* session its job was minted for: whenever a task calls submit_block, the
\* job its frame names was minted for that task's session
C37_ForwardedJobIsOwn ==
    [][\A c \in Conns :
          Forwards(c) =>
              /\ loc'[c].req[1].job_id \in DOMAIN jobs
              /\ MintedFor(jobs[loc'[c].req[1].job_id], c)]_vars

\* ---------------------------------------------------------------------------
\* Claims about submissions before the Hello
\* ---------------------------------------------------------------------------

\* connection c's task handles a Submit frame in this step: a frame is
\* consumed, the task's last request is a Submit, and the task replies,
\* leaves the loop or calls the daemon
HandlesSubmit(c) ==
    /\ pc[c] = "loop"
    /\ frames_left' = frames_left - 1
    /\ loc'[c].req # <<>>
    /\ loc'[c].req[1].type = "submit"
    /\ pc'[c] # pc[c] \/ sent'[c] # sent[c]

\* the session of connection c is registered in state Connected
StillConnected(c) ==
    /\ SessionIdOf(c) \in DOMAIN sessions
    /\ sessions[SessionIdOf(c)].state = "Connected"

\* C40: a Submit received while the session is in state Connected is not run
\* through the submission pipeline: it is not counted as a submission, no
\* daemon call is made for it, and ACCEPTED is only ever sent to a session
\* in state Ready
C40_ConnectedSubmitNotProcessed ==
    [][\A c \in Conns :
          /\ (StillConnected(c) /\ HandlesSubmit(c)) =>
                 /\ metrics'.submissions_total = metrics.submissions_total
                 /\ pc'[c] \notin {"hashing", "submitting"}
                 /\ daemon_calls' = daemon_calls
          /\ (ReplyStep(c) /\ IsAccepted(Reply(c))) =>
                 /\ SessionIdOf(c) \in DOMAIN sessions
                 /\ sessions[SessionIdOf(c)].state = "Ready"]_vars

\* ---------------------------------------------------------------------------
\* Claims about the jobs of one session and one template
\* ---------------------------------------------------------------------------

\* the ids of the registered jobs minted for connection c's session from the
\* template with the given id
JobsOf(c, template_id) ==
    {j \in DOMAIN jobs : MintedFor(jobs[j], c) /\ jobs[j].template_id = template_id}

\* C38: for each session at most one job is minted per published template:
\* the Hello path and the template-change path never both produce a job for
\* the same session and template_id
C38_OneJobPerSessionAndTemplate ==
    \A c \in Conns : \A template_id \in 1..template_counter :
        Cardinality(JobsOf(c, template_id)) <= 1

\* ---------------------------------------------------------------------------
\* Claims about the submission counters
\* ---------------------------------------------------------------------------

\* the submissions counted with an outcome
Outcomes(m) == m.submissions_accepted + m.submissions_rejected + m.submissions_stale

\* exactly one of the three outcome counters is incremented in this step
OneOutcomeCounted ==
    /\ Outcomes(metrics') = Outcomes(metrics) + 1
    /\ \A f \in {"submissions_accepted", "submissions_rejected", "submissions_stale"} :
          metrics'[f] >= metrics[f]

\* none of the three outcome counters changes in this step
NoOutcomeCounted ==
    \A f \in {"submissions_accepted", "submissions_rejected", "submissions_stale"} :
        metrics'[f] = metrics[f]

\* the tasks whose Submit has passed init_vm and has no reply yet: those
\* before compute_hash and those waiting for submit_block
InFlight == {c \in Conns : pc[c] \in {"hashing", "submitting"}}

\* a Submit frame of connection c would be refused by the submit limiter
\* now, after check_message_limit has admitted it
SubmitLimited(c) ==
    ~check_submit_limit(check_message_limit(sessions, SessionIdOf(c), now).sessions,
                        SessionIdOf(c), now).ok

\* C39: a Submit that passes the submit limiter increments submissions_total
\* and, by the time its reply is sent, exactly one of the accepted, rejected
\* and stale counters; a Submit refused by the limiter changes none of the
\* four; so with no Submit in flight the total is the sum of the three
C39_SubmitCounters ==
    /\ [](InFlight = {} => metrics.submissions_total = Outcomes(metrics))
    /\ [][\A c \in Conns :
             /\ (HandlesSubmit(c) /\ SubmitLimited(c)) =>
                    /\ metrics'.submissions_total = metrics.submissions_total
                    /\ NoOutcomeCounted
             /\ (HandlesSubmit(c) /\ ~SubmitLimited(c)) =>
                    /\ metrics'.submissions_total = metrics.submissions_total + 1
                    /\ IF HashingStep(c) THEN NoOutcomeCounted ELSE OneOutcomeCounted
             /\ (pc[c] = "hashing" /\ pc'[c] # "hashing") =>
                    /\ metrics'.submissions_total = metrics.submissions_total
                    /\ IF Forwards(c) THEN NoOutcomeCounted ELSE OneOutcomeCounted
             /\ (pc[c] = "submitting" /\ pc'[c] # "submitting") =>
                    /\ metrics'.submissions_total = metrics.submissions_total
                    /\ OneOutcomeCounted]_vars

\* a Submit was refused by the limiter, another was forwarded and accepted,
\* and none is in flight
C39_Witness ==
    /\ InFlight = {}
    /\ metrics.submissions_accepted >= 1
    /\ \E c \in Conns : sent[c].last = SubmitResult("r", "ERROR", "Submit rate exceeded")

============================================================================
